---- MODULE Spec2Model ----
(***************************************************************************)
(* Paper Mario clients: the turn-based battle engine, the overworld        *)
(* physics step and the session controller of src/Programtty.py (the base  *)
(* game) and src/pcport4k64.py (the enhanced game with the PM64 and TTYD   *)
(* content sets).                                                          *)
(*                                                                         *)
(* Lengths are kept in units of 1/Unit pixel so that GRAVITY (0.8 px per   *)
(* frame) is an integer; the model computes in exact arithmetic where the  *)
(* program computes in binary floating point.                              *)
(* The battle log keeps its last LogKeep entries (the program only ever    *)
(* reads battle_log[-3:]); presentation state (fonts, colours, animation   *)
(* and intro timers, camera, dialogue text) is left out.                   *)
(***************************************************************************)
EXTENDS Integers, Sequences, FiniteSets, TLC

VARIABLES
    variant,                \* which client runs: "base" or "enhanced"
    state,                  \* GameState of the session controller
    previous_state,         \* state remembered by show_dialogue
    selected_game,          \* "NONE", "PM64", "TTYD" (enhanced), "BASE" (base)
    mario,                  \* the Mario object
    current_chapter,        \* 1-based chapter number
    chapters,               \* per chapter: the hp of its enemies, completed
    current_partner_index,  \* index into the partner roster
    current_battle,         \* NoBattle or the Battle object
    audience,               \* the session's Audience (enhanced)
    scope,                  \* what the exploration admits: the battle keys and the
                            \* battles still to come (-1: any number) and the coin
                            \* rolls random.randint(1, 5) may return, and what it
                            \* keeps of the calls made (see Scope)
    bench                   \* objects tested on their own: an Enemy object and the
                            \* last take_damage return value, or a platform list

vars == << variant, state, previous_state, selected_game, mario,
           current_chapter, chapters, current_partner_index, current_battle,
           audience, scope, bench >>

----------------------------------------------------------------------------
(* Bounds of the exploration *)

\* battle keys (execute_action calls) a metered session may handle
MaxKeys == 5
\* Battle keys are pressed while action_timer <= MaxIdle: in the tick a battle
\* starts or an enemy turn ends, and in the MaxIdle ticks after it.
MaxIdle == 0

\* Enemy objects put on the bench have 1..MaxEnemyHp hit points and a
\* defense of 0..MaxDefense, and are hit with a damage of 0..MaxRaw
MaxEnemyHp == 6
MaxDefense == 4
MaxRaw == 6
\* level_up() is applied to players of level 1..MaxLevel
MaxLevel == 3
\* a fall is met with 1..MaxFallHp hit points left
MaxFallHp == 5
\* random battles met on a tour of the game
MaxMeets == 1
\* battles a player starts after the first to gather experience
MaxRematches == 2
\* ticks a player may wait before pressing a battle key
MaxWait == 30
\* battle keys pressed in a battle whose turn timer is watched
MaxTurns == 2
\* execute_action calls made on their own in one session
MaxAims == 2
\* target indices run from -MaxTarget - 1 to MaxTarget
MaxTarget == 3
\* battle keys pressed and battles entered where the entries are watched
MaxBlows == 2
MaxBouts == 2
\* battle keys and direct increase_excitement calls before an audience
MaxCheers == 3
\* physics steps taken on a platform list of its own
MaxSteps == 2
\* direction key events delivered to a session
MaxPresses == 2

----------------------------------------------------------------------------
(* Program constants *)

Unit == 5
SCREEN_WIDTH == 1024
SCREEN_HEIGHT == 768
\* 0.8 px per frame per frame, in 1/Unit px
GRAVITY == 4
\* -15 px per frame, in 1/Unit px
JUMP_STRENGTH == -75
\* 5 px per frame, in 1/Unit px
WALK_SPEED == 25
MARIO_WIDTH == 40
MARIO_HEIGHT == 60
START_X == 100
START_Y == 400
TURN_DELAY == 60
\* the entries of the battle log the program reads: battle_log[-3:]
LogKeep == 3
HEAL == 5

Min(a, b) == IF a < b THEN a ELSE b
Max(a, b) == IF a > b THEN a ELSE b

E(n, h, a, d, x) == [name |-> n, max_hp |-> h, attack |-> a, defense |-> d, exp_reward |-> x]
P(px, py, w, h) == [x |-> px * Unit, y |-> py * Unit, width |-> w * Unit, height |-> h * Unit]

BaseEnemies ==
  << << E("Goomba", 5, 2, 0, 10), E("Goomba", 5, 2, 0, 10), E("Paragoomba", 7, 3, 0, 15) >>,
     << E("Koopa Troopa", 8, 3, 1, 20), E("Koopa Troopa", 8, 3, 1, 20), E("Hammer Bro", 12, 5, 1, 30) >>,
     << E("Pokey", 10, 4, 2, 25), E("Bandit", 8, 5, 1, 20), E("Swooper", 6, 3, 0, 15) >>,
     << E("Shy Guy", 7, 3, 1, 18), E("Shy Guy", 7, 3, 1, 18), E("Groove Guy", 9, 4, 1, 25), E("Sky Guy", 8, 3, 0, 20) >>,
     << E("Lava Bubble", 6, 4, 0, 15), E("Putrid Piranha", 12, 5, 2, 30), E("Spike Top", 10, 4, 3, 25) >>,
     << E("Dayzee", 8, 3, 1, 20), E("Monty Mole", 10, 4, 2, 25), E("Lakitu", 12, 5, 1, 30) >>,
     << E("Crystal Bit", 5, 3, 2, 15), E("Frost Piranha", 14, 6, 2, 35), E("Duplighost", 15, 5, 1, 40) >>,
     << E("Koopatrol", 18, 7, 4, 50), E("Magikoopa", 15, 6, 2, 45), E("Hammer Bro Elite", 20, 8, 3, 60) >> >>

BasePlatforms ==
  << << P(0, 500, SCREEN_WIDTH, 100), P(200, 400, 150, 20), P(400, 350, 100, 20), P(600, 300, 200, 20) >>,
     << P(0, 550, SCREEN_WIDTH, 50), P(100, 450, 200, 20), P(400, 400, 150, 20), P(650, 350, 200, 20), P(300, 250, 400, 20) >>,
     << P(0, 520, SCREEN_WIDTH, 80), P(150, 420, 100, 20), P(350, 370, 150, 20), P(600, 420, 100, 20), P(800, 320, 150, 20) >>,
     << P(0, 500, SCREEN_WIDTH, 100), P(100, 400, 120, 20), P(300, 350, 100, 20), P(500, 300, 150, 20), P(750, 250, 200, 20) >>,
     << P(0, 550, SCREEN_WIDTH, 50), P(200, 450, 100, 20), P(400, 400, 200, 20), P(700, 350, 150, 20), P(300, 280, 300, 20) >>,
     << P(0, 500, SCREEN_WIDTH, 100), P(150, 400, 150, 20), P(400, 350, 100, 20), P(600, 300, 200, 20), P(200, 250, 100, 20) >>,
     << P(0, 520, SCREEN_WIDTH, 80), P(100, 420, 200, 20), P(400, 370, 150, 20), P(650, 320, 200, 20), P(300, 220, 300, 20) >>,
     << P(0, 550, SCREEN_WIDTH, 50), P(150, 450, 150, 20), P(400, 400, 100, 20), P(600, 350, 150, 20), P(850, 300, 100, 20), P(300, 250, 400, 20) >> >>

PM64Enemies ==
  << << E("Goomba", 5, 2, 0, 10), E("Goomba", 5, 2, 0, 10), E("Paragoomba", 7, 3, 0, 15) >>,
     << E("Koopa Troopa", 8, 3, 1, 20), E("Hammer Bro", 12, 5, 1, 30) >>,
     << E("Pokey", 10, 4, 2, 25), E("Bandit", 8, 5, 1, 20) >>,
     << E("Shy Guy", 7, 3, 1, 18), E("Groove Guy", 9, 4, 1, 25) >>,
     << E("Lava Bubble", 6, 4, 0, 15), E("Putrid Piranha", 12, 5, 2, 30) >>,
     << E("Dayzee", 8, 3, 1, 20), E("Monty Mole", 10, 4, 2, 25) >>,
     << E("Crystal Bit", 5, 3, 2, 15), E("Frost Piranha", 14, 6, 2, 35) >>,
     << E("Koopatrol", 18, 7, 4, 50), E("Magikoopa", 15, 6, 2, 45) >> >>

PM64Platforms ==
  << << P(0, 500, SCREEN_WIDTH, 100), P(200, 400, 150, 20), P(400, 350, 100, 20), P(600, 300, 200, 20) >>,
     << P(0, 550, SCREEN_WIDTH, 50), P(100, 450, 200, 20), P(400, 400, 150, 20), P(650, 350, 200, 20) >>,
     << P(0, 520, SCREEN_WIDTH, 80), P(150, 420, 100, 20), P(350, 370, 150, 20), P(600, 420, 100, 20) >>,
     << P(0, 500, SCREEN_WIDTH, 100), P(100, 400, 120, 20), P(300, 350, 100, 20), P(500, 300, 150, 20) >>,
     << P(0, 550, SCREEN_WIDTH, 50), P(200, 450, 100, 20), P(400, 400, 200, 20) >>,
     << P(0, 500, SCREEN_WIDTH, 100), P(150, 400, 150, 20), P(400, 350, 100, 20) >>,
     << P(0, 520, SCREEN_WIDTH, 80), P(100, 420, 200, 20), P(400, 370, 150, 20) >>,
     << P(0, 550, SCREEN_WIDTH, 50), P(150, 450, 150, 20), P(400, 400, 100, 20) >> >>

TTYDEnemies ==
  << << E("Goomba", 6, 2, 0, 12), E("Koopa", 8, 3, 1, 18), E("Fuzzy", 5, 2, 0, 10) >>,
     << E("X-Naut", 10, 4, 1, 25), E("Pider", 7, 3, 0, 15), E("Dark Puff", 9, 4, 0, 20) >>,
     << E("Iron Cleft", 15, 5, 4, 35), E("Shady Koopa", 10, 4, 2, 25), E("KP Koopa", 8, 3, 1, 20) >>,
     << E("Hyper Goomba", 12, 5, 1, 30), E("Crazee Dayzee", 10, 4, 1, 25), E("Duplighost", 15, 5, 1, 40) >>,
     << E("Ember", 8, 4, 0, 18), E("Bulky Bob-omb", 18, 6, 2, 40), E("Paratroopa", 10, 4, 1, 22) >>,
     << E("Dark Boo", 13, 5, 1, 30), E("Chain Chomp", 20, 7, 3, 50), E("Ice Puff", 11, 4, 1, 25) >>,
     << E("Moon Cleft", 12, 5, 3, 35), E("Z-Yux", 15, 6, 2, 40), E("Elite X-Naut", 18, 7, 3, 50) >>,
     << E("Dark Wizzerd", 20, 8, 2, 60), E("Phantom Ember", 16, 6, 1, 45), E("Swoopula", 14, 5, 1, 35) >> >>

TTYDPlatforms ==
  << << P(0, 550, SCREEN_WIDTH, 50), P(150, 450, 200, 20), P(450, 400, 150, 20) >>,
     << P(0, 520, SCREEN_WIDTH, 80), P(200, 420, 100, 20), P(400, 350, 200, 20) >>,
     << P(0, 500, SCREEN_WIDTH, 100), P(300, 400, 400, 20) >>,
     << P(0, 550, SCREEN_WIDTH, 50), P(100, 450, 150, 20), P(350, 400, 200, 20), P(650, 350, 150, 20) >>,
     << P(0, 520, SCREEN_WIDTH, 80), P(200, 420, 150, 20), P(500, 370, 200, 20) >>,
     << P(0, 500, SCREEN_WIDTH, 100), P(150, 400, 200, 20), P(450, 350, 150, 20) >>,
     << P(0, 550, SCREEN_WIDTH, 50), P(100, 450, 100, 20), P(300, 400, 150, 20), P(550, 350, 200, 20) >>,
     << P(0, 550, SCREEN_WIDTH, 50), P(150, 450, 150, 20), P(400, 400, 100, 20), P(600, 350, 150, 20) >> >>

ChapterEnemies(game) ==
    CASE game = "BASE" -> BaseEnemies
      [] game = "PM64" -> PM64Enemies
      [] game = "TTYD" -> TTYDEnemies
      [] OTHER -> << >>

ChapterPlatforms(game) ==
    CASE game = "BASE" -> BasePlatforms
      [] game = "PM64" -> PM64Platforms
      [] game = "TTYD" -> TTYDPlatforms
      [] OTHER -> << >>

\* init_partners: the roster's size (every partner has level 1 and rank 0)
NumPartners(game) ==
    CASE game = "BASE" -> 8
      [] game = "PM64" -> 8
      [] game = "TTYD" -> 7
      [] OTHER -> 0

\* init_chapters: every chapter generated, its enemies at full hp
InitChapters(game) ==
    [c \in 1..Len(ChapterEnemies(game)) |->
        [enemies |-> [i \in 1..Len(ChapterEnemies(game)[c]) |-> ChapterEnemies(game)[c][i].max_hp],
         completed |-> FALSE]]

----------------------------------------------------------------------------
(* Audience (enhanced game) *)

NewAudience == [size |-> 50, max_size |-> 200, excitement |-> 50,
                star_power |-> 0, max_star_power |-> 100]

\* a faulty add_member: the test of max_size is left out
add_member_unguarded(a) == [a EXCEPT !.size = @ + 1]

add_member(a) == IF a.size < a.max_size THEN [a EXCEPT !.size = @ + 1] ELSE a

increase_excitement(a, amount) ==
    LET a1 == [a EXCEPT !.excitement = Min(100, @ + amount)]
    IN  IF a1.excitement > 80 THEN add_member(a1) ELSE a1

generate_star_power(a, amount) ==
    [a EXCEPT !.star_power = Min(a.max_star_power, @ + amount)]

----------------------------------------------------------------------------
(* Enemy *)

\* a faulty actual_damage: the floor of 1 is left out
actual_damage_unfloored(damage, defense) == damage - defense

\* the damage take_damage applies and returns
actual_damage(damage, defense) == Max(1, damage - defense)

\* Enemy.take_damage on an enemy with hit points hp
take_damage(hp, defense, damage) == hp - actual_damage(damage, defense)

is_defeated(hp) == hp <= 0

----------------------------------------------------------------------------
(* Partner *)

\* every partner keeps the level and the rank its constructor sets
PARTNER_LEVEL == 1
PARTNER_RANK == 0

\* Partner.use_ability: 3 + level (+ 2 * rank in the enhanced game)
use_ability(v) ==
    IF v = "base" THEN 3 + PARTNER_LEVEL ELSE 3 + PARTNER_LEVEL + (PARTNER_RANK * 2)

----------------------------------------------------------------------------
(* Mario *)

NewMario ==
    [x |-> START_X * Unit, y |-> START_Y * Unit, vx |-> 0, vy |-> 0, on_ground |-> TRUE,
     level |-> 1, max_hp |-> 10, hp |-> 10, max_fp |-> 5, fp |-> 5,
     attack |-> 3, defense |-> 0, exp |-> 0, exp_to_next |-> 100,
     coins |-> 0, star_points |-> 0, crystal_stars |-> << >>,
     has_hammer |-> FALSE, has_super_jump |-> FALSE, has_spin_jump |-> FALSE,
     paper_mode |-> "NORMAL"]

\* a faulty check_platform_collision: the test of the velocity is left out
check_platform_collision_rising(m, p) ==
    /\ m.x < p.x + p.width
    /\ m.x + MARIO_WIDTH * Unit > p.x
    /\ m.y + MARIO_HEIGHT * Unit > p.y
    /\ m.y < p.y + p.height

check_platform_collision(m, p) ==
    /\ m.x < p.x + p.width
    /\ m.x + MARIO_WIDTH * Unit > p.x
    /\ m.y + MARIO_HEIGHT * Unit > p.y
    /\ m.y < p.y + p.height
    /\ m.vy >= 0

\* the platform loop of Mario.update, from platform i on
RECURSIVE collide(_, _, _)
collide(m, platforms, i) ==
    IF i > Len(platforms) THEN m
    ELSE IF check_platform_collision(m, platforms[i])
         THEN collide([m EXCEPT !.on_ground = TRUE, !.vy = 0,
                                !.y = platforms[i].y - MARIO_HEIGHT * Unit],
                      platforms, i + 1)
         ELSE collide(m, platforms, i + 1)

\* vertical velocity after gravity and the paper mode
integrate_vy(m) ==
    LET vy1 == IF ~m.on_ground THEN m.vy + GRAVITY ELSE m.vy
    IN  IF m.paper_mode = "PLANE" THEN Max(-3 * Unit, vy1) ELSE vy1

\* Mario.update(platforms)
mario_update(m, platforms) ==
    LET vy1 == integrate_vy(m)
        m1  == [m EXCEPT !.vy = vy1, !.x = @ + m.vx, !.y = @ + vy1, !.on_ground = FALSE]
        m2  == collide(m1, platforms, 1)
    IN  [m2 EXCEPT !.x = Max(0, Min(@, (SCREEN_WIDTH - MARIO_WIDTH) * Unit))]

jump(m) == IF m.on_ground THEN [m EXCEPT !.vy = JUMP_STRENGTH, !.on_ground = FALSE] ELSE m
move_left(m) == [m EXCEPT !.vx = -WALK_SPEED]
move_right(m) == [m EXCEPT !.vx = WALK_SPEED]
stop(m) == [m EXCEPT !.vx = 0]

\* a faulty level_up: exp_to_next is computed from the level before the raise
level_up_stale(m) ==
    [m EXCEPT !.level = @ + 1,
              !.max_hp = @ + 5, !.hp = m.max_hp + 5,
              !.max_fp = @ + 3, !.fp = m.max_fp + 3,
              !.attack = @ + 1,
              !.exp = 0,
              !.exp_to_next = m.level * 100]

level_up(m) ==
    [m EXCEPT !.level = @ + 1,
              !.max_hp = @ + 5, !.hp = m.max_hp + 5,
              !.max_fp = @ + 3, !.fp = m.max_fp + 3,
              !.attack = @ + 1,
              !.exp = 0,
              !.exp_to_next = (m.level + 1) * 100]

----------------------------------------------------------------------------
(* Battle.  A battle works on a "world" w: the Mario object, the hit       *)
(* points hp of the current chapter's enemies (the Enemy objects are       *)
(* shared between the chapter's list and the battle's list), the Battle    *)
(* object and the Audience the battle refers to.  stats are the chapter's  *)
(* enemy templates; battle.enemies holds indices into them.                *)

\* Battle.__init__
NewBattle(enemies, partner, aud_ref) ==
    [enemies |-> enemies, current_partner |-> partner, turn |-> "player",
     action_timer |-> 0, battle_log |-> << >>, victory |-> FALSE, defeat |-> FALSE,
     aud_ref |-> aud_ref, audience |-> << >>, stylish_timer |-> 0]

\* battle_log.append(entry), keeping the last LogKeep entries
AppendLog(log, entry) ==
    LET l == Append(log, entry)
    IN  IF Len(l) > LogKeep THEN SubSeq(l, Len(l) - LogKeep + 1, Len(l)) ELSE l

RECURSIVE AppendAll(_, _)
AppendAll(log, entries) ==
    IF entries = << >> THEN log
    ELSE AppendAll(AppendLog(log, Head(entries)), Tail(entries))

\* self.enemies[target_index]: the 1-based place of the element a Python
\* index names in a list of n elements, 0 where the subscript raises IndexError
subscript(n, target_index) ==
    IF target_index >= 0 /\ target_index < n THEN target_index + 1
    ELSE IF target_index < 0 /\ target_index >= -n THEN n + target_index + 1
    ELSE 0

\* the body shared by the JUMP, HAMMER and PARTNER branches; the enhanced
\* JUMP and HAMMER branches excite the audience before they subscript the
\* list, the PARTNER branch subscripts it first
strike(w, stats, kind, who, target_index, damage, excite) ==
    IF target_index < Len(w.battle.enemies)
    THEN LET i == subscript(Len(w.battle.enemies), target_index)
             w1 == [w EXCEPT !.aud = IF excite > 0 THEN increase_excitement(@, excite)
                                     ELSE @]
         IN  IF i = 0
             THEN [w1 EXCEPT !.raised = TRUE]
             ELSE LET e == w.battle.enemies[i]
                  IN  [w1 EXCEPT !.hp[e] = take_damage(@, stats[e].defense, damage),
                                 !.battle.battle_log = AppendLog(@, << kind, who, e >>)]
    ELSE w

perform_stylish_move(w) ==
    [w EXCEPT !.battle.stylish_timer = 30,
              !.aud = generate_star_power(increase_excitement(@, 30), 20),
              !.battle.battle_log = AppendLog(@, << "stylish", 0, 0 >>)]

\* a faulty if/elif chain: the HAMMER branch does not test has_hammer
act_unlocked(w, stats, v, action, target_index, roll, success) ==
    IF action = "JUMP" THEN
        strike(w, stats, "jump", 0, target_index,
               w.mario.attack + roll + (IF success THEN 2 ELSE 0),
               IF success THEN 10 ELSE 0)
    ELSE IF action = "HAMMER" THEN
        IF v = "base"
        THEN strike(w, stats, "hammer", 0, target_index, w.mario.attack + 2 + roll, 0)
        ELSE strike(w, stats, "hammer", 0, target_index,
                    w.mario.attack + 3 + roll + (IF success THEN 3 ELSE 0),
                    IF success THEN 15 ELSE 0)
    ELSE IF action = "STYLISH" /\ v = "enhanced" THEN
        perform_stylish_move(w)
    ELSE IF action = "APPEAL" /\ v = "enhanced" THEN
        [w EXCEPT !.aud = generate_star_power(increase_excitement(@, 20), 10),
                  !.battle.battle_log = AppendLog(@, << "appeal", 0, 0 >>)]
    ELSE IF action = "PARTNER" THEN
        strike(w, stats, "partner", w.battle.current_partner, target_index,
               use_ability(v) + (IF success THEN 2 ELSE 0), 0)
    ELSE IF action = "ITEM" THEN
        [w EXCEPT !.mario.hp = Min(w.mario.max_hp, @ + HEAL),
                  !.battle.battle_log = AppendLog(@, << "item", 0, 0 >>)]
    ELSE w

\* the if/elif chain of execute_action
act(w, stats, v, action, target_index, roll, success) ==
    IF action = "JUMP" THEN
        strike(w, stats, "jump", 0, target_index,
               w.mario.attack + roll + (IF success THEN 2 ELSE 0),
               IF success THEN 10 ELSE 0)
    ELSE IF action = "HAMMER" /\ w.mario.has_hammer THEN
        IF v = "base"
        THEN strike(w, stats, "hammer", 0, target_index, w.mario.attack + 2 + roll, 0)
        ELSE strike(w, stats, "hammer", 0, target_index,
                    w.mario.attack + 3 + roll + (IF success THEN 3 ELSE 0),
                    IF success THEN 15 ELSE 0)
    ELSE IF action = "STYLISH" /\ v = "enhanced" THEN
        perform_stylish_move(w)
    ELSE IF action = "APPEAL" /\ v = "enhanced" THEN
        [w EXCEPT !.aud = generate_star_power(increase_excitement(@, 20), 10),
                  !.battle.battle_log = AppendLog(@, << "appeal", 0, 0 >>)]
    ELSE IF action = "PARTNER" THEN
        strike(w, stats, "partner", w.battle.current_partner, target_index,
               use_ability(v) + (IF success THEN 2 ELSE 0), 0)
    ELSE IF action = "ITEM" THEN
        [w EXCEPT !.mario.hp = Min(w.mario.max_hp, @ + HEAL),
                  !.battle.battle_log = AppendLog(@, << "item", 0, 0 >>)]
    ELSE w

\* the enemies of the battle that are defeated, and those that are not
defeated_of(w) == SelectSeq(w.battle.enemies, LAMBDA e : is_defeated(w.hp[e]))
standing_of(w) == SelectSeq(w.battle.enemies, LAMBDA e : ~is_defeated(w.hp[e]))

\* the loop over the defeated enemies, from the i-th on; coin[i] is the i-th
\* random.randint(1, 5)
RECURSIVE reward(_, _, _, _, _, _)
reward(w, stats, v, defeated, i, coin) ==
    IF i > Len(defeated) THEN w
    ELSE LET e == defeated[i]
         IN  reward([w EXCEPT !.battle.battle_log = AppendLog(@, << "defeated", 0, e >>),
                              !.mario.exp = @ + stats[e].exp_reward,
                              !.mario.coins = @ + coin[i],
                              !.aud = IF v = "enhanced" THEN increase_excitement(@, 25) ELSE @],
                    stats, v, defeated, i + 1, coin)

\* a faulty "Remove defeated enemies": the enemies go without their rewards
remove_defeated_unrewarded(w, stats, v, coin) ==
    [w EXCEPT !.battle.enemies = standing_of(w)]

\* "Remove defeated enemies"
remove_defeated(w, stats, v, coin) ==
    LET w1 == reward(w, stats, v, defeated_of(w), 1, coin)
    IN  [w1 EXCEPT !.battle.enemies = standing_of(w)]

\* a faulty "Check victory": the flag is never raised
check_victory_never(w, v) == w

\* a faulty "Check victory": the flag is raised with one enemy left
check_victory_early(w, v) ==
    IF Len(w.battle.enemies) <= 1
    THEN [w EXCEPT !.battle.victory = TRUE,
                   !.aud = IF v = "enhanced" THEN generate_star_power(@, 50) ELSE @]
    ELSE w

\* "Check victory"
check_victory(w, v) ==
    IF w.battle.enemies = << >>
    THEN [w EXCEPT !.battle.victory = TRUE,
                   !.aud = IF v = "enhanced" THEN generate_star_power(@, 50) ELSE @]
    ELSE w

\* Battle.execute_action(action, target_index)
execute_action(w, stats, v, action, target_index, roll, success, coin) ==
    LET w1 == act(w, stats, v, action, target_index, roll, success)
    IN  IF w1.raised THEN w1
        ELSE check_victory(remove_defeated(w1, stats, v, coin), v)

\* one enemy's attack on Mario; guard is the superguard roll of the enhanced game
enemy_attack(w, stats, v, e, guard) ==
    LET damage == Max(1, stats[e].attack - w.mario.defense)
    IN  IF v = "enhanced" /\ guard
        THEN [w EXCEPT !.battle.battle_log = AppendLog(@, << "superguard", 0, 0 >>),
                       !.aud = increase_excitement(@, 20)]
        ELSE [w EXCEPT !.mario.hp = @ - damage,
                       !.battle.battle_log = AppendLog(@, << "attack", 0, e >>)]

\* a faulty enemy_turn loop: the break is left out
RECURSIVE enemy_loop_through(_, _, _, _, _)
enemy_loop_through(w, stats, v, i, guards) ==
    IF i > Len(w.battle.enemies) THEN w
    ELSE LET w1 == enemy_attack(w, stats, v, w.battle.enemies[i], guards[i])
         IN  enemy_loop_through(IF w1.mario.hp <= 0
                                THEN [w1 EXCEPT !.battle.defeat = TRUE] ELSE w1,
                                stats, v, i + 1, guards)

\* the loop of enemy_turn over a snapshot of the enemy list, from the i-th on
RECURSIVE enemy_loop(_, _, _, _, _)
enemy_loop(w, stats, v, i, guards) ==
    IF i > Len(w.battle.enemies) THEN w
    ELSE LET w1 == enemy_attack(w, stats, v, w.battle.enemies[i], guards[i])
         IN  IF w1.mario.hp <= 0
             THEN [w1 EXCEPT !.battle.defeat = TRUE]
             ELSE enemy_loop(w1, stats, v, i + 1, guards)

\* Battle.enemy_turn()
enemy_turn(w, stats, v, guards) == enemy_loop(w, stats, v, 1, guards)

----------------------------------------------------------------------------
(* Session controller (PaperMario / PaperMarioComplete) *)

\* the bench before any take_damage call
NoBench == [hp |-> 0, defense |-> 0, damage |-> 0, returned |-> 0]

HasBattle == current_battle # << >>
Battle == current_battle[1]

Game == selected_game
Roster == chapters[current_chapter].enemies
Stats == ChapterEnemies(Game)[current_chapter]
\* a faulty level: the chapter is built without its ground platform
Platforms_without_ground == Tail(ChapterPlatforms(Game)[current_chapter])

\* chapter.platforms of the current chapter
Platforms == ChapterPlatforms(Game)[current_chapter]

\* the Audience object a battle's self.audience refers to
AudienceOf(b) ==
    IF b.aud_ref = "session" THEN audience
    ELSE IF b.aud_ref = "own" THEN b.audience[1]
    ELSE NewAudience

\* the objects the current battle works on
World == [mario |-> mario, hp |-> Roster, battle |-> Battle, aud |-> AudienceOf(Battle),
          raised |-> FALSE]

\* write the objects of w back
Store(w) ==
    /\ mario' = w.mario
    /\ chapters' = [chapters EXCEPT ![current_chapter].enemies = w.hp]
    /\ audience' = IF w.battle.aud_ref = "session" THEN w.aud ELSE audience
    /\ current_battle' = << IF w.battle.aud_ref = "own"
                            THEN [w.battle EXCEPT !.audience = << w.aud >>]
                            ELSE w.battle >>

\* a faulty random.sample: the draws are made with replacement
Samples_with_replacement(n, k) == [1..k -> 1..n]

\* the ordered samples random.sample(range(n), k) can return
Samples(n, k) == { s \in [1..k -> 1..n] : \A i, j \in 1..k : i # j => s[i] # s[j] }

\* the rolls random.randint(1, 3) can return
DamageRolls == 1..3
\* the least and the greatest roll random.randint(1, 5) can return
CoinRolls == {1, 5}
\* what a session with keys battle keys and battles battles to come admits;
\* battle keys are pressed while action_timer <= idle, since counts the
\* update() calls since the last execute_action call (up to TURN_DELAY + 1)
\* and last is the action and target of the last execute_action call made
\* on its own; held are the direction keys that are down
Scope(keys, battles, coin_rolls) ==
    [keys |-> keys, battles |-> battles, coin_rolls |-> coin_rolls,
     idle |-> MaxIdle, since |-> 0, last |-> << "NONE", 0 >>, held |-> {}]
\* the outcomes of check_action_command() and of the superguard roll
Successes == IF variant = "enhanced" THEN BOOLEAN ELSE {FALSE}

\* a faulty start_battle: every battle is built without the session's Audience
BattleFor_own_audience(sample) ==
    LET b == NewBattle(sample, current_partner_index,
                       IF variant = "base" THEN "none" ELSE "own")
    IN  [b EXCEPT !.audience = IF b.aud_ref = "own" THEN << NewAudience >> ELSE << >>]

\* the Battle that start_battle builds for an ordered sample
BattleFor(sample) ==
    LET b == NewBattle(sample, current_partner_index,
                       IF variant = "base" THEN "none"
                       ELSE IF selected_game = "TTYD" THEN "session" ELSE "own")
    IN  [b EXCEPT !.audience = IF b.aud_ref = "own" THEN << NewAudience >> ELSE << >>]

\* a faulty __init__: the chapters are not built anew
FreshSession_old_chapters(v) ==
    /\ variant' = v
    /\ state' = "INTRO"
    /\ previous_state' = "NONE"
    /\ selected_game' = IF v = "base" THEN "BASE" ELSE "NONE"
    /\ mario' = NewMario
    /\ current_chapter' = 1
    /\ chapters' = chapters
    /\ current_partner_index' = 0
    /\ current_battle' = << >>
    /\ audience' = NewAudience

\* the session a fresh __init__ leaves
FreshSession(v) ==
    /\ variant' = v
    /\ state' = "INTRO"
    /\ previous_state' = "NONE"
    /\ selected_game' = IF v = "base" THEN "BASE" ELSE "NONE"
    /\ mario' = NewMario
    /\ current_chapter' = 1
    /\ chapters' = IF v = "base" THEN InitChapters("BASE") ELSE << >>
    /\ current_partner_index' = 0
    /\ current_battle' = << >>
    /\ audience' = NewAudience

----------------------------------------------------------------------------
(* handle_events: one action per key event *)

\* INTRO, K_SPACE
KeyConfirmIntro ==
    /\ state = "INTRO"
    /\ state' = IF variant = "base" THEN "OVERWORLD" ELSE "GAME_SELECT"
    /\ UNCHANGED << variant, previous_state, selected_game, mario, current_chapter,
                    chapters, current_partner_index, current_battle, audience,
                    scope, bench >>

\* GAME_SELECT, K_1 / K_2 (enhanced)
KeySelectGame ==
    /\ state = "GAME_SELECT"
    /\ \E g \in {"PM64", "TTYD"} :
          /\ selected_game' = g
          /\ chapters' = InitChapters(g)
    /\ state' = "OVERWORLD"
    /\ UNCHANGED << variant, previous_state, mario, current_chapter,
                    current_partner_index, current_battle, audience, scope, bench >>

\* OVERWORLD, K_LEFT
KeyLeft ==
    /\ state = "OVERWORLD"
    /\ mario' = move_left(mario)
    /\ UNCHANGED << variant, state, previous_state, selected_game, current_chapter,
                    chapters, current_partner_index, current_battle, audience,
                    scope, bench >>

\* OVERWORLD, K_RIGHT
KeyRight ==
    /\ state = "OVERWORLD"
    /\ mario' = move_right(mario)
    /\ UNCHANGED << variant, state, previous_state, selected_game, current_chapter,
                    chapters, current_partner_index, current_battle, audience,
                    scope, bench >>

\* OVERWORLD, K_SPACE
KeyJump ==
    /\ state = "OVERWORLD"
    /\ mario' = jump(mario)
    /\ UNCHANGED << variant, state, previous_state, selected_game, current_chapter,
                    chapters, current_partner_index, current_battle, audience,
                    scope, bench >>

\* KEYUP of K_LEFT or K_RIGHT, honoured in OVERWORLD only
KeyRelease ==
    /\ state = "OVERWORLD"
    /\ mario' = stop(mario)
    /\ UNCHANGED << variant, state, previous_state, selected_game, current_chapter,
                    chapters, current_partner_index, current_battle, audience,
                    scope, bench >>

\* a budget of the exploration after one more use
Spend(k) == IF k > 0 THEN k - 1 ELSE k

\* start_battle() with the sample random.sample draws
start_battle(sample) ==
    /\ current_battle' = << BattleFor(sample) >>
    /\ state' = "BATTLE"
    /\ scope' = [scope EXCEPT !.battles = Spend(@), !.since = 0]

\* OVERWORLD, K_b
KeyBattle ==
    /\ state = "OVERWORLD"
    /\ Len(Roster) > 0
    /\ scope.battles # 0
    /\ \E sample \in Samples(Len(Roster), Min(3, Len(Roster))) : start_battle(sample)
    /\ UNCHANGED << variant, previous_state, selected_game, mario, current_chapter,
                    chapters, current_partner_index, audience, bench >>

\* a faulty K_p branch: the index is raised without the wrap to the roster
KeyPartner_unwrapped ==
    /\ state = "OVERWORLD"
    /\ current_partner_index' = current_partner_index + 1
    /\ UNCHANGED << variant, state, previous_state, selected_game, mario,
                    current_chapter, chapters, current_battle, audience,
                    scope, bench >>

\* OVERWORLD, K_p
KeyPartner ==
    /\ state = "OVERWORLD"
    /\ current_partner_index' = (current_partner_index + 1) % NumPartners(Game)
    /\ UNCHANGED << variant, state, previous_state, selected_game, mario,
                    current_chapter, chapters, current_battle, audience,
                    scope, bench >>

\* OVERWORLD, K_m
KeyMenu ==
    /\ state = "OVERWORLD"
    /\ state' = "MENU"
    /\ UNCHANGED << variant, previous_state, selected_game, mario, current_chapter,
                    chapters, current_partner_index, current_battle, audience,
                    scope, bench >>

\* OVERWORLD, K_1 / K_2 / K_3 with TTYD selected, K_0 (enhanced)
KeyPaperMode ==
    /\ state = "OVERWORLD"
    /\ variant = "enhanced"
    /\ \E mode \in {"PLANE", "TUBE", "THIN", "NORMAL"} :
          /\ mode # "NORMAL" => selected_game = "TTYD"
          /\ mario' = [mario EXCEPT !.paper_mode = mode]
    /\ UNCHANGED << variant, state, previous_state, selected_game, current_chapter,
                    chapters, current_partner_index, current_battle, audience,
                    scope, bench >>

\* the rest of a battle key's branch: execute_action, then turn = "enemy"
BattleKey(action, roll, success) ==
    \E coin \in [1..Len(defeated_of(act(World, Stats, variant, action, 0, roll, success)))
                   -> scope.coin_rolls] :
        LET w == execute_action(World, Stats, variant, action, 0, roll, success, coin)
        IN  /\ Store([w EXCEPT !.battle.turn = "enemy"])
            /\ scope' = [scope EXCEPT !.keys = Spend(@), !.since = 0]
            /\ UNCHANGED << variant, state, previous_state, selected_game,
                            current_chapter, current_partner_index, bench >>

\* BATTLE, K_1
KeyBattleJump ==
    /\ state = "BATTLE" /\ HasBattle
    /\ Battle.action_timer <= scope.idle
    /\ scope.keys # 0
    /\ \E roll \in DamageRolls, success \in Successes : BattleKey("JUMP", roll, success)

\* BATTLE, K_2 and self.mario.has_hammer
KeyBattleHammer ==
    /\ state = "BATTLE" /\ HasBattle
    /\ Battle.action_timer <= scope.idle
    /\ scope.keys # 0
    /\ mario.has_hammer
    /\ \E roll \in DamageRolls, success \in Successes : BattleKey("HAMMER", roll, success)

\* BATTLE, K_3
KeyBattlePartner ==
    /\ state = "BATTLE" /\ HasBattle
    /\ Battle.action_timer <= scope.idle
    /\ scope.keys # 0
    /\ \E success \in Successes : BattleKey("PARTNER", 1, success)

\* BATTLE, K_4
KeyBattleItem ==
    /\ state = "BATTLE" /\ HasBattle
    /\ Battle.action_timer <= scope.idle
    /\ scope.keys # 0
    /\ BattleKey("ITEM", 1, FALSE)

\* BATTLE, K_6 / K_7 with TTYD selected (enhanced)
KeyBattleShow ==
    /\ state = "BATTLE" /\ HasBattle
    /\ Battle.action_timer <= scope.idle
    /\ scope.keys # 0
    /\ variant = "enhanced" /\ selected_game = "TTYD"
    /\ \E action \in {"STYLISH", "APPEAL"} : BattleKey(action, 1, FALSE)

\* a faulty K_5 branch: the player can run on the player's turn only
KeyBattleRun_on_turn ==
    /\ state = "BATTLE"
    /\ HasBattle /\ Battle.turn = "player"
    /\ state' = "OVERWORLD"
    /\ current_battle' = << >>
    /\ scope' = [scope EXCEPT !.since = 0]
    /\ UNCHANGED << variant, previous_state, selected_game, mario, current_chapter,
                    chapters, current_partner_index, audience, bench >>

\* BATTLE, K_5: run from the battle
KeyBattleRun ==
    /\ state = "BATTLE"
    /\ state' = "OVERWORLD"
    /\ current_battle' = << >>
    /\ scope' = [scope EXCEPT !.since = 0]
    /\ UNCHANGED << variant, previous_state, selected_game, mario, current_chapter,
                    chapters, current_partner_index, audience, bench >>

\* DIALOGUE, K_SPACE
KeyConfirmDialogue ==
    /\ state = "DIALOGUE"
    /\ state' = previous_state
    /\ UNCHANGED << variant, previous_state, selected_game, mario, current_chapter,
                    chapters, current_partner_index, current_battle, audience,
                    scope, bench >>

\* MENU, K_ESCAPE / K_m
KeyCloseMenu ==
    /\ state = "MENU"
    /\ state' = "OVERWORLD"
    /\ UNCHANGED << variant, previous_state, selected_game, mario, current_chapter,
                    chapters, current_partner_index, current_battle, audience,
                    scope, bench >>

\* GAME_OVER, K_r: self.__init__()
KeyRestart ==
    /\ state = "GAME_OVER"
    /\ FreshSession(variant)
    /\ UNCHANGED << scope, bench >>

\* a faulty show_dialogue: the state is remembered after it is replaced
show_dialogue_late(current) ==
    /\ state' = "DIALOGUE"
    /\ previous_state' = "DIALOGUE"

\* show_dialogue(), called with self.state = current
show_dialogue(current) ==
    /\ previous_state' = current
    /\ state' = "DIALOGUE"

\* a faulty next_chapter: the level-up is applied twice
advance_mario_twice(m, v, g, c) ==
    LET m1 == [m EXCEPT !.x = START_X * Unit, !.y = START_Y * Unit]
        m2 == IF v = "base" \/ g = "PM64"
              THEN [m1 EXCEPT !.star_points = @ + 1]
              ELSE [m1 EXCEPT !.crystal_stars = Append(@, c)]
        m3 == level_up(level_up(m2))
    IN  IF c = 2 THEN [m3 EXCEPT !.has_hammer = TRUE]
        ELSE IF c = 4 /\ v = "base" THEN [m3 EXCEPT !.has_super_jump = TRUE]
        ELSE IF c = 4 /\ g = "TTYD" THEN [m3 EXCEPT !.has_spin_jump = TRUE]
        ELSE m3

\* a faulty next_chapter: the hammer is given on entering chapter 3
advance_mario_late_hammer(m, v, g, c) ==
    LET m1 == [m EXCEPT !.x = START_X * Unit, !.y = START_Y * Unit]
        m2 == IF v = "base" \/ g = "PM64"
              THEN [m1 EXCEPT !.star_points = @ + 1]
              ELSE [m1 EXCEPT !.crystal_stars = Append(@, c)]
        m3 == level_up(m2)
    IN  IF c = 3 THEN [m3 EXCEPT !.has_hammer = TRUE]
        ELSE IF c = 4 /\ v = "base" THEN [m3 EXCEPT !.has_super_jump = TRUE]
        ELSE IF c = 4 /\ g = "TTYD" THEN [m3 EXCEPT !.has_spin_jump = TRUE]
        ELSE m3

\* the rewards and abilities next_chapter gives Mario on entering chapter c
advance_mario(m, v, g, c) ==
    LET m1 == [m EXCEPT !.x = START_X * Unit, !.y = START_Y * Unit]
        m2 == IF v = "base" \/ g = "PM64"
              THEN [m1 EXCEPT !.star_points = @ + 1]
              ELSE [m1 EXCEPT !.crystal_stars = Append(@, c)]
        m3 == level_up(m2)
    IN  IF c = 2 THEN [m3 EXCEPT !.has_hammer = TRUE]
        ELSE IF c = 4 /\ v = "base" THEN [m3 EXCEPT !.has_super_jump = TRUE]
        ELSE IF c = 4 /\ g = "TTYD" THEN [m3 EXCEPT !.has_spin_jump = TRUE]
        ELSE m3

\* whether next_chapter calls show_dialogue on entering chapter c
announces(v, g, c) == c = 2 \/ (c = 4 /\ (v = "base" \/ g = "TTYD"))

\* CHAPTER_COMPLETE, K_SPACE: next_chapter()
KeyConfirmChapter ==
    /\ state = "CHAPTER_COMPLETE"
    /\ IF current_chapter < Len(chapters)
       THEN /\ current_chapter' = current_chapter + 1
            /\ mario' = advance_mario(mario, variant, Game, current_chapter + 1)
            /\ IF announces(variant, Game, current_chapter + 1)
               THEN show_dialogue("OVERWORLD")
               ELSE state' = "OVERWORLD" /\ UNCHANGED previous_state
       ELSE /\ state' = "VICTORY"
            /\ UNCHANGED << current_chapter, mario, previous_state >>
    /\ UNCHANGED << variant, selected_game, chapters, current_partner_index,
                    current_battle, audience, scope, bench >>

----------------------------------------------------------------------------
(* update: one action per tick *)

\* the OVERWORLD branch; trigger is random.random() < 0.005
UpdateOverworld ==
    /\ state = "OVERWORLD"
    /\ LET m1 == mario_update(mario, Platforms)
           complete == m1.x > (SCREEN_WIDTH - 100) * Unit
           fell == m1.y > SCREEN_HEIGHT * Unit
           m2 == IF fell
                 THEN [m1 EXCEPT !.hp = @ - 1, !.x = START_X * Unit, !.y = START_Y * Unit]
                 ELSE m1
           s1 == IF complete THEN "CHAPTER_COMPLETE" ELSE state
           s2 == IF fell /\ m2.hp <= 0 THEN "GAME_OVER" ELSE s1
       IN  /\ mario' = m2
           /\ chapters' = [chapters EXCEPT ![current_chapter].completed = @ \/ complete]
           /\ \E trigger \in BOOLEAN :
                 IF trigger /\ Len(Roster) > 0
                 THEN /\ scope.battles # 0
                      /\ \E sample \in Samples(Len(Roster), Min(3, Len(Roster))) :
                            start_battle(sample)
                 ELSE /\ state' = s2
                      /\ UNCHANGED << current_battle, scope >>
    /\ UNCHANGED << variant, previous_state, selected_game, current_chapter,
                    current_partner_index, audience, bench >>

\* whether the next update() runs the enemy turn
EnemyTurnDue == Battle.turn = "enemy" /\ Battle.action_timer + 1 > TURN_DELAY

\* a faulty BATTLE branch: a victory is left without the level-up check
UpdateBattle_no_level_check ==
    /\ state = "BATTLE" /\ HasBattle
    /\ (Battle.turn = "player" /\ ~Battle.victory) => Battle.action_timer < scope.idle
    /\ \E guards \in [1..(IF EnemyTurnDue THEN Len(Battle.enemies) ELSE 0) -> Successes] :
        LET w0 == [World EXCEPT !.battle.action_timer = @ + 1]
            w1 == IF w0.battle.turn = "enemy" /\ w0.battle.action_timer > TURN_DELAY
                  THEN LET t == enemy_turn(w0, Stats, variant, guards)
                       IN  [t EXCEPT !.battle.turn = "player", !.battle.action_timer = 0]
                  ELSE w0
        IN  IF w1.battle.victory
            THEN /\ current_battle' = << >>
                 /\ chapters' = [chapters EXCEPT ![current_chapter].enemies = w1.hp]
                 /\ audience' = IF w1.battle.aud_ref = "session" THEN w1.aud ELSE audience
                 /\ mario' = w1.mario
                 /\ state' = "OVERWORLD"
                 /\ UNCHANGED previous_state
            ELSE /\ Store(w1)
                 /\ state' = IF w1.battle.defeat THEN "GAME_OVER" ELSE state
                 /\ UNCHANGED previous_state
    /\ scope' = [scope EXCEPT !.since = Min(@ + 1, TURN_DELAY + 1)]
    /\ UNCHANGED << variant, selected_game, current_chapter, current_partner_index,
                    bench >>

\* the BATTLE branch; guards are the superguard rolls of an enemy turn
UpdateBattle ==
    /\ state = "BATTLE" /\ HasBattle
    /\ (Battle.turn = "player" /\ ~Battle.victory) => Battle.action_timer < scope.idle
    /\ \E guards \in [1..(IF EnemyTurnDue THEN Len(Battle.enemies) ELSE 0) -> Successes] :
        LET w0 == [World EXCEPT !.battle.action_timer = @ + 1]
            w1 == IF w0.battle.turn = "enemy" /\ w0.battle.action_timer > TURN_DELAY
                  THEN LET t == enemy_turn(w0, Stats, variant, guards)
                       IN  [t EXCEPT !.battle.turn = "player", !.battle.action_timer = 0]
                  ELSE w0
        IN  IF w1.battle.victory
            THEN /\ current_battle' = << >>
                 /\ chapters' = [chapters EXCEPT ![current_chapter].enemies = w1.hp]
                 /\ audience' = IF w1.battle.aud_ref = "session" THEN w1.aud ELSE audience
                 /\ IF w1.mario.exp >= w1.mario.exp_to_next
                    THEN /\ mario' = level_up(w1.mario)
                         /\ show_dialogue("OVERWORLD")
                    ELSE /\ mario' = w1.mario
                         /\ state' = "OVERWORLD"
                         /\ UNCHANGED previous_state
            ELSE /\ Store(w1)
                 /\ state' = IF w1.battle.defeat THEN "GAME_OVER" ELSE state
                 /\ UNCHANGED previous_state
    /\ scope' = [scope EXCEPT !.since = Min(@ + 1, TURN_DELAY + 1)]
    /\ UNCHANGED << variant, selected_game, current_chapter, current_partner_index,
                    bench >>

----------------------------------------------------------------------------
(* Sessions *)

\* the session a launched client is in
Launch(v) ==
    /\ variant = v
    /\ state = "INTRO"
    /\ previous_state = "NONE"
    /\ selected_game = IF v = "base" THEN "BASE" ELSE "NONE"
    /\ mario = NewMario
    /\ current_chapter = 1
    /\ chapters = IF v = "base" THEN InitChapters("BASE") ELSE << >>
    /\ current_partner_index = 0
    /\ current_battle = << >>
    /\ audience = NewAudience

\* Mario after the chapter advances that lead from chapter 1 to chapter c
RECURSIVE MarioAt(_, _, _)
MarioAt(v, g, c) ==
    IF c = 1 THEN NewMario ELSE advance_mario(MarioAt(v, g, c - 1), v, g, c)

\* What a session in chapter c holds whose Mario object is m, no battle in
\* the chapter having been fought.
Session(v, g, c, m) ==
    /\ variant = v
    /\ previous_state = IF c >= 2 THEN "OVERWORLD" ELSE "NONE"
    /\ selected_game = g
    /\ mario = m
    /\ current_chapter = c
    /\ chapters = [k \in 1..Len(ChapterEnemies(g)) |->
                      [InitChapters(g)[k] EXCEPT !.completed = k < c]]
    /\ current_partner_index = 0
    /\ audience = NewAudience

\* Mario standing on the ground of chapter c at the start column
Grounded(v, g, c) ==
    [MarioAt(v, g, c) EXCEPT !.y = ChapterPlatforms(g)[c][1].y - MARIO_HEIGHT * Unit]

\* What a session holds when the player has walked, without a battle, from
\* the launch into chapter c and stands at the start column on the ground.
Standing(v, g, c) == Session(v, g, c, Grounded(v, g, c))

GamesOf(v) == IF v = "base" THEN {"BASE"} ELSE {"PM64", "TTYD"}

\* The session of a player who stood in chapter c and has just started a
\* battle there, random.sample having drawn the enemies in roster order.
Started(v, g, c) ==
    /\ Standing(v, g, c)
    /\ state = "BATTLE"
    /\ current_battle = << BattleFor([i \in 1..Min(3, Len(ChapterEnemies(g)[c])) |-> i]) >>

----------------------------------------------------------------------------
(* Battles of both clients.  A scene is a client, a content set, a chapter *)
(* and the number of battle keys the player presses at most; the player    *)
(* has just started a battle in that chapter.                              *)

Scenes ==
    { << "base", "BASE", 1, MaxKeys >>,
      << "base", "BASE", 2, MaxKeys - 2 >>,
      << "enhanced", "PM64", 2, MaxKeys - 3 >>,
      << "enhanced", "TTYD", 1, MaxKeys - 3 >> }

Init ==
    \E s \in Scenes :
        /\ Started(s[1], s[2], s[3])
        /\ scope = Scope(s[4], 0, CoinRolls)
        /\ bench = NoBench

Next ==
    \/ KeyBattleJump
    \/ KeyBattleHammer
    \/ KeyBattlePartner
    \/ KeyBattleItem
    \/ KeyBattleShow
    \/ KeyBattleRun
    \/ UpdateBattle

Spec == Init /\ [][Next]_vars

----------------------------------------------------------------------------
(* One battle of the base client in chapter 1, any number of keys, every    *)
(* defeated enemy dropping one coin.  The main loop calls update() every    *)
(* frame; the player keeps pressing battle keys.                            *)

InitFair ==
    /\ Started("base", "BASE", 1)
    /\ scope = Scope(-1, 0, {1})
    /\ bench = NoBench

PressKey == KeyBattleJump \/ KeyBattlePartner \/ KeyBattleItem

NextFair ==
    \/ KeyBattleJump
    \/ KeyBattlePartner
    \/ KeyBattleItem
    \/ UpdateBattle

SpecFair == InitFair /\ [][NextFair]_vars /\ WF_vars(UpdateBattle) /\ WF_vars(PressKey)

----------------------------------------------------------------------------
(* The overworld of both clients: the player walks, jumps and (TTYD) folds  *)
(* into the paper modes in chapter 1; no battle is met.                     *)

InitWalk ==
    /\ \E v \in {"base", "enhanced"} : \E g \in GamesOf(v) : Standing(v, g, 1)
    /\ state = "OVERWORLD"
    /\ current_battle = << >>
    /\ scope = Scope(0, 0, CoinRolls)
    /\ bench = NoBench

NextWalk ==
    \/ KeyLeft
    \/ KeyRight
    \/ KeyJump
    \/ KeyRelease
    \/ KeyPaperMode
    \/ UpdateOverworld

SpecWalk == InitWalk /\ [][NextWalk]_vars

----------------------------------------------------------------------------
(* Enemy.take_damage on its own: an Enemy object on the bench is hit with   *)
(* any damage while it has hit points left.                                 *)

InitEnemy ==
    /\ Launch("base")
    /\ scope = Scope(0, 0, CoinRolls)
    /\ \E hp \in 1..MaxEnemyHp, defense \in 0..MaxDefense :
          bench = [hp |-> hp, defense |-> defense, damage |-> 0, returned |-> 0]

\* enemy.take_damage(damage), the return value kept
Hit ==
    /\ bench.hp > 0
    /\ \E damage \in 0..MaxRaw :
          bench' = [hp |-> take_damage(bench.hp, bench.defense, damage),
                    defense |-> bench.defense,
                    damage |-> damage,
                    returned |-> actual_damage(damage, bench.defense)]
    /\ UNCHANGED << variant, state, previous_state, selected_game, mario,
                    current_chapter, chapters, current_partner_index,
                    current_battle, audience, scope >>

NextEnemy == Hit

SpecEnemy == InitEnemy /\ [][NextEnemy]_vars

----------------------------------------------------------------------------
(* Mario.level_up on its own: players of every level up to MaxLevel, with   *)
(* any hit points, flower points, experience, coins and position.           *)

\* a player of level l as the level-ups from level 1 leave the caps
Levelled(l) ==
    [NewMario EXCEPT !.level = l, !.max_hp = 5 + (5 * l), !.max_fp = 2 + (3 * l),
                     !.attack = 2 + l, !.exp_to_next = l * 100]

InitLevel ==
    /\ \E v \in {"base", "enhanced"}, l \in 1..MaxLevel :
        \E hp \in {1, 5 + (5 * l)}, fp \in {0, 2 + (3 * l)}, exp \in {0, 35, l * 100},
           coins \in {0, 7}, x \in {START_X * Unit, 3 * START_X * Unit},
           hammer \in BOOLEAN :
            Session(v, IF v = "base" THEN "BASE" ELSE "TTYD", 1,
                    [Levelled(l) EXCEPT !.hp = hp, !.fp = fp, !.exp = exp,
                                        !.coins = coins, !.x = x,
                                        !.has_hammer = hammer,
                                        !.star_points = IF hammer THEN 1 ELSE 0])
    /\ state = "OVERWORLD"
    /\ current_battle = << >>
    /\ scope = Scope(0, 0, CoinRolls)
    /\ bench = NoBench

\* self.mario.level_up()
LevelUp ==
    /\ mario.level <= MaxLevel
    /\ mario' = level_up(mario)
    /\ UNCHANGED << variant, state, previous_state, selected_game,
                    current_chapter, chapters, current_partner_index,
                    current_battle, audience, scope, bench >>

NextLevel == LevelUp

SpecLevel == InitLevel /\ [][NextLevel]_vars

----------------------------------------------------------------------------
(* The fall branch of update(): an overworld tick that begins with the      *)
(* player below the screen.  The chapters as shipped have a floor across    *)
(* the whole screen, so the tick is taken on its own.                       *)

InitFall ==
    /\ \E v \in {"base", "enhanced"} :
        \E g \in GamesOf(v), hp \in 1..MaxFallHp, vy \in {0, 10 * Unit},
           x \in {0, START_X * Unit, (SCREEN_WIDTH - 100) * Unit},
           y \in {SCREEN_HEIGHT * Unit, (SCREEN_HEIGHT + 1) * Unit,
                  (SCREEN_HEIGHT + 100) * Unit} :
            Session(v, g, 1, [NewMario EXCEPT !.hp = hp, !.x = x, !.y = y,
                                              !.vy = vy, !.on_ground = FALSE])
    /\ state = "OVERWORLD"
    /\ current_battle = << >>
    /\ scope = Scope(0, 1, CoinRolls)
    /\ bench = NoBench

NextFall ==
    \/ UpdateOverworld
    \/ KeyBattleRun

SpecFall == InitFall /\ [][NextFall]_vars

----------------------------------------------------------------------------
(* Properties *)

\* a battle is under way and neither flag is set
Fighting == state = "BATTLE" /\ HasBattle /\ ~Battle.victory /\ ~Battle.defeat
\* exactly one of the battle's flags is set
Decided == HasBattle /\ (Battle.victory # Battle.defeat)
\* no battle ever has both flags set
NeverBoth == [](HasBattle => ~(Battle.victory /\ Battle.defeat))
\* one of the flags of the battle is set
Terminal == HasBattle /\ (Battle.victory \/ Battle.defeat)
\* a battle key is handled: one execute_action call
KeyStep ==
    \/ KeyBattleJump
    \/ KeyBattleHammer
    \/ KeyBattlePartner
    \/ KeyBattleItem
    \/ KeyBattleShow

\* C1 as stated: whatever battle keys (Jump, Partner, Item) the player keeps
\* pressing between the enemy turns, every battle under way eventually has
\* exactly one of victory and defeat set, and no battle ever has both set.
C1_AnyKeysDecide == (Fighting ~> Decided) /\ NeverBoth

\* C1: no battle ever has victory and defeat both set; and unless the player
\* goes on using Item for ever, every battle under way eventually has exactly
\* one of the two set.
C1_DamagingKeysDecide ==
    NeverBoth /\ ([]<><<KeyBattleItem>>_vars \/ (Fighting ~> Decided))

\* C1: a battle won after an enemy turn has hurt the player
C1_Witness ==
    /\ HasBattle /\ Battle.victory /\ ~Battle.defeat
    /\ mario.hp < mario.max_hp

\* C2: a battle key handled while victory or defeat is set leaves the player's
\* hp, exp and coins, the enemy list, the battle log and the audience meters
\* as they were.
C2_TerminalFrozen ==
    [][(Terminal /\ KeyStep) =>
           /\ mario'.hp = mario.hp
           /\ mario'.exp = mario.exp
           /\ mario'.coins = mario.coins
           /\ current_battle'[1].enemies = Battle.enemies
           /\ current_battle'[1].battle_log = Battle.battle_log
           /\ AudienceOf(Battle)' = AudienceOf(Battle)]_vars

\* C3: while the session holds a Battle, its victory flag is set exactly when
\* its enemy list is empty.
C3_VictoryIffEmpty == HasBattle => (Battle.victory <=> Battle.enemies = << >>)

\* C3: a battle that has been won and not yet discarded
C3_Witness == state = "BATTLE" /\ HasBattle /\ Battle.victory /\ Battle.enemies = << >>

\* C4: the player's hp is never below 0 and never above max_hp.
C4_HpClamp == 0 <= mario.hp /\ mario.hp <= mario.max_hp

\* C5: take_damage(raw) lowers the enemy's hp by max(1, raw - defense), which
\* is at least 1, and returns that amount.
C5_DamageFloor ==
    [][Hit => LET raw == bench'.damage
                  d == IF raw - bench.defense > 1 THEN raw - bench.defense ELSE 1
              IN  /\ bench'.hp = bench.hp - d
                  /\ bench'.returned = d
                  /\ bench'.hp < bench.hp]_vars

\* C5: an enemy was hit with less than its defense and lost one hit point
C5_Witness == bench.returned = 1 /\ bench.damage < bench.defense

\* what the enemies from the i-th on leave of hp and log when each in list
\* order deals max(1, attack - defense), unless guards says its blow is
\* superguarded, and the first blow that leaves hp <= 0 ends the turn
RECURSIVE Blows(_, _, _, _)
Blows(hp, log, i, guards) ==
    IF i > Len(Battle.enemies) THEN [hp |-> hp, log |-> log]
    ELSE LET e == Battle.enemies[i]
             d == IF Stats[e].attack - mario.defense > 1
                  THEN Stats[e].attack - mario.defense ELSE 1
             hp1 == IF guards[i] THEN hp ELSE hp - d
             log1 == AppendLog(log, IF guards[i] THEN << "superguard", 0, 0 >>
                                                ELSE << "attack", 0, e >>)
         IN  IF hp1 <= 0 THEN [hp |-> hp1, log |-> log1]
             ELSE Blows(hp1, log1, i + 1, guards)

\* an update() that runs the enemy turn of a battle with enemies
EnemyTurnStep ==
    /\ state = "BATTLE" /\ HasBattle /\ Battle.enemies # << >>
    /\ EnemyTurnDue
    /\ UpdateBattle

\* the step leaves what Blows leaves, and defeat is set iff hp <= 0
AsBlows(guards) ==
    LET r == Blows(mario.hp, Battle.battle_log, 1, guards)
    IN  /\ mario'.hp = r.hp
        /\ current_battle'[1].battle_log = r.log
        /\ current_battle'[1].defeat = (r.hp <= 0)

\* C6 as stated: in an enemy turn every enemy in list order deals
\* max(1, attack - defense) and logs its attack, up to and including the first
\* that leaves hp <= 0, which sets defeat; the enemies after it do nothing.
C6_EveryBlowLands ==
    [][EnemyTurnStep => AsBlows([i \in 1..Len(Battle.enemies) |-> FALSE])]_vars

\* C6: in an enemy turn every enemy in list order deals max(1, attack -
\* defense) and logs its attack, or (enhanced client only) is superguarded,
\* deals nothing and logs the superguard, up to and including the first that
\* leaves hp <= 0, which sets defeat; the enemies after it do nothing.
C6_BlowsLandOrAreGuarded ==
    [][EnemyTurnStep =>
           \E guards \in [1..Len(Battle.enemies) ->
                             IF variant = "enhanced" THEN BOOLEAN ELSE {FALSE}] :
               AsBlows(guards)]_vars

\* C6: the player was defeated by an enemy that is not the last of the list
C6_Witness ==
    /\ state = "GAME_OVER" /\ HasBattle /\ Battle.defeat
    /\ Battle.battle_log # << >>
    /\ LET last == Battle.battle_log[Len(Battle.battle_log)]
       IN  last[1] = "attack" /\ last[3] # Battle.enemies[Len(Battle.enemies)]

\* the exp rewards of the enemies es of the current chapter
RECURSIVE SumRewards(_)
SumRewards(es) ==
    IF es = << >> THEN 0 ELSE Stats[Head(es)].exp_reward + SumRewards(Tail(es))

\* C7: every battle key leaves the battle's list without the enemies whose hp
\* is <= 0 and with all the others in their order; it adds the exp rewards of
\* the removed enemies to exp and 1 to 5 coins for each to coins; the log ends
\* with one defeated entry for each in list order; and victory is set if the
\* list is left empty.
C7_DefeatedAreRewarded ==
    [][KeyStep =>
           LET hp == chapters'[current_chapter].enemies
               dead == SelectSeq(Battle.enemies, LAMBDA e : hp[e] <= 0)
               alive == SelectSeq(Battle.enemies, LAMBDA e : hp[e] > 0)
               n == Len(dead)
               log == current_battle'[1].battle_log
               shown == IF n < LogKeep THEN n ELSE LogKeep
           IN  /\ current_battle'[1].enemies = alive
               /\ mario'.exp = mario.exp + SumRewards(dead)
               /\ mario'.coins - mario.coins \in n..(5 * n)
               /\ Len(log) >= shown
               /\ \A i \in 1..shown :
                     log[Len(log) - shown + i] = << "defeated", 0, dead[n - shown + i] >>
               /\ (alive = << >>) => current_battle'[1].victory]_vars

\* C7: a battle key has just defeated an enemy and other enemies are left
C7_Witness ==
    /\ state = "BATTLE" /\ HasBattle /\ Battle.enemies # << >>
    /\ Battle.turn = "enemy" /\ Battle.action_timer = 0
    /\ Battle.battle_log # << >>
    /\ Battle.battle_log[Len(Battle.battle_log)][1] = "defeated"
    /\ mario.exp > 0 /\ mario.coins > 0

\* the fields level_up() writes
LevelFields == {"level", "max_hp", "hp", "max_fp", "fp", "attack", "exp", "exp_to_next"}

VyAtTest ==
    LET vy1 == IF ~mario.on_ground THEN mario.vy + GRAVITY ELSE mario.vy
    IN  IF mario.paper_mode = "PLANE" /\ vy1 < -3 * Unit THEN -3 * Unit ELSE vy1

\* the bounding box of m overlaps platform p
Overlaps(m, p) ==
    /\ m.x < p.x + p.width
    /\ m.x + MARIO_WIDTH * Unit > p.x
    /\ m.y + MARIO_HEIGHT * Unit > p.y
    /\ m.y < p.y + p.height

\* C9: a physics step whose velocity at the collision test is negative leaves
\* vy at that velocity and y at the old y plus it, and the player not
\* grounded.
C9_RisingNeverSnaps ==
    [][(UpdateOverworld /\ VyAtTest < 0) =>
           /\ mario'.vy = VyAtTest
           /\ mario'.y = mario.y + VyAtTest
           /\ ~mario'.on_ground]_vars

\* C9: the player is rising and overlaps a platform
C9_Witness ==
    /\ state = "OVERWORLD"
    /\ mario.vy < 0 /\ ~mario.on_ground
    /\ \E i \in 1..Len(Platforms) : Overlaps(mario, Platforms[i])

----------------------------------------------------------------------------
(* Further handlers *)

\* BATTLE, K_2 while self.mario.has_hammer is false: no branch of the key
\* chain is taken
KeyBattleHammerLocked ==
    /\ state = "BATTLE" /\ HasBattle
    /\ ~mario.has_hammer
    /\ scope.keys # 0
    /\ scope' = [scope EXCEPT !.keys = Spend(@), !.last = << "K_2", 0 >>]
    /\ UNCHANGED << variant, state, previous_state, selected_game, mario,
                    current_chapter, chapters, current_partner_index,
                    current_battle, audience, bench >>

\* a faulty update(): the overworld goes on under the menu
UpdateIdle_under_menu ==
    /\ state \notin {"OVERWORLD", "BATTLE"}
    /\ mario' = IF state = "MENU" THEN mario_update(mario, Platforms) ELSE mario
    /\ UNCHANGED << variant, state, previous_state, selected_game, current_chapter,
                    chapters, current_partner_index, current_battle, audience,
                    scope, bench >>

\* update() in the states that have no branch of their own (MENU, DIALOGUE,
\* GAME_SELECT, CHAPTER_COMPLETE, GAME_OVER, VICTORY) and in INTRO, whose
\* branch only advances the intro animation
UpdateIdle ==
    /\ state \notin {"OVERWORLD", "BATTLE"}
    /\ UNCHANGED vars

\* the actions a call of execute_action on its own is made with
AimActions == {"JUMP", "HAMMER", "PARTNER"}

\* current_battle.execute_action(action, target_index) called on its own, as
\* a unit test calls it: the turn flag is left alone.  An IndexError leaves
\* the handler and the main loop: the program is gone.
Aim(action, target_index) ==
    /\ state = "BATTLE" /\ HasBattle
    /\ scope.keys # 0
    /\ \E roll \in DamageRolls, success \in Successes :
        \E coin \in [1..Len(defeated_of(act(World, Stats, variant, action, target_index,
                                            roll, success))) -> scope.coin_rolls] :
            LET w == execute_action(World, Stats, variant, action, target_index,
                                    roll, success, coin)
            IN  /\ Store(w)
                /\ state' = IF w.raised THEN "CRASHED" ELSE state
    /\ scope' = [scope EXCEPT !.keys = Spend(@), !.last = << action, target_index >>]
    /\ UNCHANGED << variant, previous_state, selected_game, current_chapter,
                    current_partner_index, bench >>

----------------------------------------------------------------------------
(* A tour of the game: from the launch the player walks to the right edge   *)
(* of chapter after chapter, opens and closes the menu, and runs from the   *)
(* random battles met on the way.                                           *)

InitTour ==
    /\ \E v \in {"base", "enhanced"} : Launch(v)
    /\ scope = Scope(0, MaxMeets, {1})
    /\ bench = NoBench

NextTour ==
    \/ KeyConfirmIntro
    \/ KeySelectGame
    \/ KeyRight
    \/ KeyMenu
    \/ KeyCloseMenu
    \/ KeyBattleRun
    \/ KeyConfirmChapter
    \/ KeyConfirmDialogue
    \/ UpdateOverworld
    \/ UpdateIdle

SpecTour == InitTour /\ [][NextTour]_vars

----------------------------------------------------------------------------
(* The two callers of show_dialogue.  A player of the base client fights    *)
(* battle after battle in chapter 1 until the experience suffices for a     *)
(* level; a player of either client walks over the right edge of a chapter. *)

\* What a session holds when the player has walked, without a battle, to
\* the last column before the right edge of chapter c and walks on.
AtEdge(v, g, c) ==
    Session(v, g, c, [Grounded(v, g, c) EXCEPT !.x = (SCREEN_WIDTH - 100) * Unit - 4 * Unit,
                                               !.vx = WALK_SPEED])

EdgeChapters == {1, 3, 7, 8}

InitDialogue ==
    /\ bench = NoBench
    /\ \/ /\ Started("base", "BASE", 1)
          /\ scope = Scope(MaxKeys + 1, MaxRematches, {1})
       \/ /\ \E v \in {"base", "enhanced"} : \E g \in GamesOf(v) : \E c \in EdgeChapters :
                AtEdge(v, g, c)
          /\ state = "OVERWORLD"
          /\ current_battle = << >>
          /\ scope = Scope(0, 0, {1})

NextDialogue ==
    \/ KeyBattleJump
    \/ KeyBattleItem
    \/ KeyBattle
    \/ KeyConfirmChapter
    \/ KeyConfirmDialogue
    \/ UpdateBattle
    \/ UpdateOverworld
    \/ UpdateIdle

SpecDialogue == InitDialogue /\ [][NextDialogue]_vars

----------------------------------------------------------------------------
(* The turn timer: a battle in which the player may wait up to MaxWait      *)
(* ticks before pressing a battle key.                                      *)

InitCadence ==
    /\ \/ Started("base", "BASE", 1)
       \/ Started("enhanced", "TTYD", 1)
    /\ scope = [Scope(MaxTurns, 0, {1}) EXCEPT !.idle = MaxWait]
    /\ bench = NoBench

NextCadence ==
    \/ KeyBattleJump
    \/ KeyBattleItem
    \/ UpdateBattle

SpecCadence == InitCadence /\ [][NextCadence]_vars

----------------------------------------------------------------------------
(* execute_action on its own, with any target index, and the hammer key     *)
(* while the hammer is locked, in first battles and in rematches.           *)

TargetIndices == (0 - MaxTarget - 1)..MaxTarget

InitTarget ==
    /\ \/ Started("base", "BASE", 1)
       \/ Started("base", "BASE", 2)
       \/ Started("enhanced", "PM64", 1)
       \/ Started("enhanced", "TTYD", 1)
    /\ scope = Scope(MaxAims, 1, {1})
    /\ bench = NoBench

NextTarget ==
    \/ \E action \in AimActions, target_index \in TargetIndices : Aim(action, target_index)
    \/ KeyBattleHammerLocked
    \/ KeyBattleRun
    \/ KeyBattle

SpecTarget == InitTarget /\ [][NextTarget]_vars

----------------------------------------------------------------------------
(* Battles of both clients that may end in GAME_OVER, and the restart.      *)

NextRestart ==
    \/ Next
    \/ KeyRestart
    \/ KeyConfirmIntro
    \/ KeySelectGame

SpecRestart == Init /\ [][NextRestart]_vars

----------------------------------------------------------------------------
(* Properties of the session controller *)

\* C11: an overworld update that leaves x greater than SCREEN_WIDTH - 100
\* ends in CHAPTER_COMPLETE with the chapter's completed flag set, and one
\* that leaves x at most SCREEN_WIDTH - 100 does not end in CHAPTER_COMPLETE.
C11_EdgeCompletes ==
    [][UpdateOverworld =>
           IF mario'.x > (SCREEN_WIDTH - 100) * Unit
           THEN /\ state' = "CHAPTER_COMPLETE"
                /\ chapters'[current_chapter].completed
           ELSE state' # "CHAPTER_COMPLETE"]_vars

\* the milestone counter: star points, or (TTYD) the crystal stars held
Milestones(m) == m.star_points + Len(m.crystal_stars)

\* C12: a confirm in CHAPTER_COMPLETE before the last chapter raises the
\* chapter by 1, puts the player at (100, 400), raises the milestone counter
\* by 1 and levels the player up once; in the last chapter it sets VICTORY
\* and leaves the chapter number and the player as they were.
C12_ChapterAdvance ==
    [][KeyConfirmChapter =>
           IF current_chapter < Len(chapters)
           THEN /\ current_chapter' = current_chapter + 1
                /\ mario'.x = START_X * Unit
                /\ mario'.y = START_Y * Unit
                /\ Milestones(mario') = Milestones(mario) + 1
                /\ mario'.level = mario.level + 1
                /\ mario'.max_hp = mario.max_hp + 5
                /\ mario'.max_fp = mario.max_fp + 3
                /\ mario'.attack = mario.attack + 1
                /\ mario'.hp = mario'.max_hp
                /\ mario'.fp = mario'.max_fp
                /\ mario'.exp = 0
                /\ mario'.exp_to_next = mario'.level * 100
           ELSE /\ state' = "VICTORY"
                /\ current_chapter' = current_chapter
                /\ mario' = mario]_vars

\* C12: the last chapter was confirmed by a player who advanced through all
\* the chapters before it
C12_Witness ==
    /\ state = "VICTORY"
    /\ current_chapter = Len(chapters)
    /\ mario.level = Len(chapters)
    /\ Milestones(mario) = Len(chapters) - 1

\* the ability flags of a player
Abilities(m) == << m.has_hammer, m.has_super_jump, m.has_spin_jump >>

\* C13: the advance into chapter 2 sets the hammer flag and the advance into
\* chapter 4 sets a new ability flag, both ending in DIALOGUE; every other
\* advance ends in OVERWORLD with the ability flags as they were; and a
\* confirm in DIALOGUE ends in OVERWORLD.
C13_AbilityThresholds ==
    [][/\ (KeyConfirmChapter /\ current_chapter < Len(chapters)) =>
              IF current_chapter + 1 = 2
              THEN mario'.has_hammer /\ state' = "DIALOGUE"
              ELSE IF current_chapter + 1 = 4
              THEN Abilities(mario') # Abilities(mario) /\ state' = "DIALOGUE"
              ELSE Abilities(mario') = Abilities(mario) /\ state' = "OVERWORLD"
       /\ KeyConfirmDialogue => state' = "OVERWORLD"]_vars

\* an update() that calls enemy_turn()
EnemyTurnInvoked == state = "BATTLE" /\ HasBattle /\ EnemyTurnDue /\ UpdateBattle

\* C14: a battle key leaves the turn flag at "enemy"; an update() calls
\* enemy_turn() only as the 60th or a later update() since the last battle
\* key, and leaves the battle, if it is kept, with the turn flag at "player"
\* and the timer at 0.
C14_TurnCadence ==
    [][/\ KeyStep => current_battle'[1].turn = "enemy"
       /\ EnemyTurnInvoked =>
              /\ scope.since + 1 >= TURN_DELAY
              /\ current_battle' # << >> =>
                     /\ current_battle'[1].turn = "player"
                     /\ current_battle'[1].action_timer = 0]_vars

\* C15: in BATTLE the run key can always be handled, and handling it ends in
\* OVERWORLD without a battle, with the player, the chapters and the
\* audience as they were.
C15_RunAlwaysLeaves ==
    /\ [](state = "BATTLE" => ENABLED KeyBattleRun)
    /\ [][KeyBattleRun =>
              /\ state' = "OVERWORLD"
              /\ current_battle' = << >>
              /\ mario' = mario
              /\ chapters' = chapters
              /\ audience' = audience
              /\ current_chapter' = current_chapter]_vars

\* C15: the player ran, hurt and with an enemy hurt, from a battle in which
\* no enemy was defeated
C15_Witness ==
    /\ state = "OVERWORLD" /\ ~HasBattle
    /\ mario.exp = 0
    /\ mario.hp < mario.max_hp
    /\ \E i \in 1..Len(Roster) : Roster[i] > 0 /\ Roster[i] < Stats[i].max_hp

\* every enemy of the battle has hit points left
AllStanding == \A i \in 1..Len(Battle.enemies) : Roster[Battle.enemies[i]] > 0

\* target_index is an index Python accepts for the battle's enemy list
ValidIndex(target_index) ==
    /\ target_index >= 0 - Len(Battle.enemies)
    /\ target_index < Len(Battle.enemies)

LockedCall == ~mario.has_hammer /\ \E i \in TargetIndices : Aim("HAMMER", i)

\* the hammer key leaves the battle and the player as they were
LockedKeyIdle ==
    KeyBattleHammerLocked =>
        /\ current_battle' = current_battle
        /\ mario' = mario
        /\ chapters' = chapters
        /\ state' = state

GameStates ==
    {"INTRO", "GAME_SELECT", "OVERWORLD", "BATTLE", "MENU", "DIALOGUE",
     "CHAPTER_COMPLETE", "GAME_OVER", "VICTORY", "AUDIENCE"}

\* C18: in DIALOGUE the remembered state is a state other than DIALOGUE, it
\* is the state show_dialogue was called in (OVERWORLD, which both callers
\* set before the call), and a confirm sets the state to it.
C18_DialogueReturns ==
    /\ [](state = "DIALOGUE" =>
              /\ previous_state \in GameStates \ {"DIALOGUE"}
              /\ previous_state = "OVERWORLD"
              /\ ENABLED KeyConfirmDialogue)
    /\ [][KeyConfirmDialogue => state' = previous_state /\ state' # "DIALOGUE"]_vars

\* C18: the dialogue of a level-up earned in battle, in chapter 1
C18_Witness ==
    /\ state = "DIALOGUE"
    /\ current_chapter = 1
    /\ mario.level = 2

\* C19: MENU is entered from OVERWORLD only; a step taken in MENU leaves the
\* player, the chapter and the battle reference as they were and ends in
\* MENU or, by the key that closes the menu, in OVERWORLD.
C19_MenuFreeze ==
    [][/\ (state' = "MENU" /\ state # "MENU") => state = "OVERWORLD"
       /\ state = "MENU" =>
              /\ mario' = mario
              /\ current_chapter' = current_chapter
              /\ current_battle' = current_battle
              /\ state' \in {"MENU", "OVERWORLD"}
              /\ state' = "OVERWORLD" => KeyCloseMenu]_vars

\* C19: the menu is open over a player who was walking
C19_Witness ==
    /\ state = "MENU"
    /\ mario.vx > 0
    /\ mario.x > START_X * Unit

\* every enemy of every chapter has its full hit points
AllEnemiesFresh ==
    \A c \in 1..Len(chapters) : \A i \in 1..Len(chapters[c].enemies) :
        chapters[c].enemies[i] = ChapterEnemies(Game)[c][i].max_hp

\* C20: the restart key in GAME_OVER leaves the session a launch leaves:
\* INTRO, chapter 1, a fresh player, no battle, partner index 0, every
\* enemy at full hit points, and (enhanced) no content set and a fresh
\* audience.
C20_RestartIsLaunch ==
    [][KeyRestart =>
           /\ Launch(variant)'
           /\ state' = "INTRO"
           /\ current_chapter' = 1
           /\ mario'.hp = 10 /\ mario'.level = 1 /\ mario'.exp = 0 /\ mario'.coins = 0
           /\ Abilities(mario') = << FALSE, FALSE, FALSE >>
           /\ mario'.x = START_X * Unit /\ mario'.y = START_Y * Unit
           /\ mario'.vx = 0 /\ mario'.vy = 0
           /\ current_battle' = << >>
           /\ current_partner_index' = 0
           /\ AllEnemiesFresh'
           /\ variant = "enhanced" => selected_game' = "NONE" /\ audience' = NewAudience]_vars

\* C20: a session restarted after a defeat (the tick count of the lost
\* battle's enemy turn is still held) is played on into the overworld
C20_Witness ==
    /\ state = "OVERWORLD" /\ ~HasBattle
    /\ scope.since > 0
    /\ mario = NewMario
    /\ AllEnemiesFresh
----------------------------------------------------------------------------
(* Battle entry and exit: a player standing in a chapter starts battles by  *)
(* the debug key or meets them at random, strikes and runs.                  *)

EntryScenes ==
    { << "base", "BASE", 1 >>, << "base", "BASE", 4 >>,
      << "enhanced", "PM64", 2 >>, << "enhanced", "TTYD", 1 >> }

InitEntry ==
    /\ \E s \in EntryScenes : Standing(s[1], s[2], s[3])
    /\ state = "OVERWORLD"
    /\ current_battle = << >>
    /\ scope = Scope(MaxBlows, MaxBouts, {1})
    /\ bench = NoBench

NextEntry ==
    \/ KeyBattle
    \/ KeyBattleJump
    \/ KeyBattleRun
    \/ UpdateOverworld

SpecEntry == InitEntry /\ [][NextEntry]_vars

----------------------------------------------------------------------------
(* The audience of the enhanced client: battles of chapter 1 with either    *)
(* content set, before a fresh audience and (TTYD, whose session audience   *)
(* is kept from battle to battle) before a house that is full or short of   *)
(* one member.                                                              *)

\* the amounts increase_excitement is called with
ExciteAmounts == {10, 15, 20, 25, 30}

\* self.audience.increase_excitement(amount) called on its own on the
\* audience of the battle
Excite(amount) ==
    /\ state = "BATTLE" /\ HasBattle
    /\ variant = "enhanced"
    /\ scope.keys # 0
    /\ Store([World EXCEPT !.aud = increase_excitement(@, amount)])
    /\ scope' = [scope EXCEPT !.keys = Spend(@), !.last = << "EXCITE", amount >>]
    /\ UNCHANGED << variant, state, previous_state, selected_game, current_chapter,
                    current_partner_index, bench >>

\* the session audience of a TTYD player after many stylish moves
FullHouses ==
    { [NewAudience EXCEPT !.size = n, !.excitement = 100, !.star_power = 100] :
        n \in {NewAudience.max_size - 1, NewAudience.max_size} }

InitAudience ==
    /\ \/ Started("enhanced", "PM64", 1)
       \/ Started("enhanced", "TTYD", 1)
       \/ /\ variant = "enhanced"
          /\ previous_state = "NONE"
          /\ selected_game = "TTYD"
          /\ mario = Grounded("enhanced", "TTYD", 1)
          /\ current_chapter = 1
          /\ chapters = InitChapters("TTYD")
          /\ current_partner_index = 0
          /\ audience \in FullHouses
          /\ state = "BATTLE"
          /\ current_battle = << BattleFor([i \in 1..3 |-> i]) >>
    /\ scope = Scope(MaxCheers, 0, {1})
    /\ bench = NoBench

NextAudience ==
    \/ \E amount \in ExciteAmounts : Excite(amount)
    \/ KeyBattleJump
    \/ KeyBattleShow
    \/ UpdateBattle

SpecAudience == InitAudience /\ [][NextAudience]_vars

----------------------------------------------------------------------------
(* Battle after battle of the enhanced client in chapter 1: the player      *)
(* strikes, shows off, runs and starts the next battle.                     *)

InitEncore ==
    /\ \/ Started("enhanced", "PM64", 1)
       \/ Started("enhanced", "TTYD", 1)
    /\ scope = Scope(MaxBlows, MaxBouts, {1})
    /\ bench = NoBench

NextEncore ==
    \/ KeyBattleJump
    \/ KeyBattleShow
    \/ KeyBattleRun
    \/ KeyBattle
    \/ UpdateBattle
    \/ UpdateOverworld

SpecEncore == InitEncore /\ [][NextEncore]_vars


----------------------------------------------------------------------------
(* Mario.update on its own: physics steps on platform lists in which        *)
(* platforms lie close above one another, as no chapter's list has them.    *)

\* the platforms the lists are made of: ground, a ledge whose band reaches
\* below the top of the ground, a shelf above the ledge, a step far right
Stage ==
    << P(0, 500, SCREEN_WIDTH, 100), P(0, 470, 200, 40),
       P(50, 430, 100, 30), P(600, 480, 100, 20) >>

\* the lists of two and of three different platforms of the stage
PlatformLists ==
    { [k \in 1..Len(s) |-> Stage[s[k]]] :
        s \in Samples(Len(Stage), 2) \cup Samples(Len(Stage), 3) }

InitSnap ==
    /\ \E v \in {"base", "enhanced"} :
        \E x \in {100, 620}, y \in {400, 441, 445, 470}, vy \in {0 - (2 * Unit), 0, 16, 8 * Unit} :
            Session(v, IF v = "base" THEN "BASE" ELSE "TTYD", 1,
                    [NewMario EXCEPT !.x = x * Unit, !.y = y * Unit, !.vy = vy,
                                     !.on_ground = FALSE])
    /\ state = "OVERWORLD"
    /\ current_battle = << >>
    /\ scope = Scope(MaxSteps, 0, CoinRolls)
    /\ bench \in { [platforms |-> l] : l \in PlatformLists }

\* self.mario.update(platforms) with the platform list on the bench
PhysicsStep ==
    /\ scope.keys # 0
    /\ mario' = mario_update(mario, bench.platforms)
    /\ scope' = [scope EXCEPT !.keys = Spend(@)]
    /\ UNCHANGED << variant, state, previous_state, selected_game, current_chapter,
                    chapters, current_partner_index, current_battle, audience, bench >>

NextSnap == PhysicsStep

SpecSnap == InitSnap /\ [][NextSnap]_vars

----------------------------------------------------------------------------
(* The direction keys as the player holds and releases them, in whatever    *)
(* state the session is: walking in chapter 1, under the menu, in a random  *)
(* battle met on the way.                                                   *)

DirectionKeys == {"K_LEFT", "K_RIGHT"}

\* KEYDOWN of a direction key that is up: only the OVERWORLD branch has a
\* test for it.  The events are counted in scope.keys.
DirectionDown(key) ==
    /\ key \notin scope.held
    /\ scope.keys # 0
    /\ state \notin {"INTRO", "GAME_SELECT", "CRASHED"}
    /\ mario' = IF state = "OVERWORLD"
                THEN (IF key = "K_LEFT" THEN move_left(mario) ELSE move_right(mario))
                ELSE mario
    /\ scope' = [scope EXCEPT !.keys = Spend(@), !.held = @ \cup {key}]
    /\ UNCHANGED << variant, state, previous_state, selected_game, current_chapter,
                    chapters, current_partner_index, current_battle, audience, bench >>

\* KEYUP of a direction key that is down: honoured in OVERWORLD only
DirectionUp(key) ==
    /\ key \in scope.held
    /\ mario' = IF state = "OVERWORLD" THEN stop(mario) ELSE mario
    /\ scope' = [scope EXCEPT !.held = @ \ {key}]
    /\ UNCHANGED << variant, state, previous_state, selected_game, current_chapter,
                    chapters, current_partner_index, current_battle, audience, bench >>

InitRelease ==
    /\ \E v \in {"base", "enhanced"} : \E g \in GamesOf(v) : Standing(v, g, 1)
    /\ state = "OVERWORLD"
    /\ current_battle = << >>
    /\ scope = Scope(MaxPresses, MaxMeets, {1})
    /\ bench = NoBench

NextRelease ==
    \/ \E key \in DirectionKeys : DirectionDown(key)
    \/ \E key \in DirectionKeys : DirectionUp(key)
    \/ KeyMenu
    \/ KeyCloseMenu
    \/ KeyBattleRun
    \/ KeyConfirmChapter
    \/ KeyConfirmDialogue
    \/ UpdateOverworld
    \/ UpdateIdle

SpecRelease == InitRelease /\ [][NextRelease]_vars
----------------------------------------------------------------------------
(* Properties of battle entry and exit, of the audience and of the keys *)

\* a step from OVERWORLD into BATTLE
BattleEntry == state = "OVERWORLD" /\ state' = "BATTLE"

\* C21: a step from OVERWORLD into BATTLE is taken only with a non-empty
\* roster in the current chapter, and the new battle's list then holds
\* exactly min(3, roster size) enemies of that roster, no two the same.
C21_EntrySamplesRoster ==
    [][BattleEntry =>
           /\ Len(Roster) > 0
           /\ current_battle' # << >>
           /\ LET enemies == current_battle'[1].enemies
              IN  /\ Len(enemies) = (IF Len(Roster) < 3 THEN Len(Roster) ELSE 3)
                  /\ \A i \in 1..Len(enemies) : enemies[i] \in 1..Len(Roster)
                  /\ \A i, j \in 1..Len(enemies) : i # j => enemies[i] # enemies[j]]_vars

\* C21: a battle just entered in a chapter with four enemies, the fourth
\* among the three drawn and not in roster order
C21_Witness ==
    /\ state = "BATTLE" /\ HasBattle
    /\ Len(Roster) = 4
    /\ Len(Battle.enemies) = 3
    /\ Battle.enemies[1] = 4 /\ Battle.enemies[3] = 1
    /\ Battle.action_timer = 0 /\ Battle.battle_log = << >>

\* C22: an update() of a battle whose victory flag is set drops the battle
\* and ends in OVERWORLD with the player as he was or, if exp >= exp_to_next,
\* in DIALOGUE over OVERWORLD with one level-up applied; an update() in which
\* defeat is set ends in GAME_OVER; a confirm in DIALOGUE ends in OVERWORLD.
C22_BattleExit ==
    [][/\ (UpdateBattle /\ Battle.victory) =>
              /\ current_battle' = << >>
              /\ IF mario.exp >= mario.exp_to_next
                 THEN /\ state' = "DIALOGUE"
                      /\ previous_state' = "OVERWORLD"
                      /\ mario'.level = mario.level + 1
                      /\ mario'.max_hp = mario.max_hp + 5
                      /\ mario'.attack = mario.attack + 1
                      /\ mario'.exp = 0
                      /\ mario'.exp_to_next = mario'.level * 100
                 ELSE /\ state' = "OVERWORLD"
                      /\ mario' = mario
       /\ (UpdateBattle /\ ~Battle.victory) =>
              /\ current_battle' # << >>
              /\ (current_battle'[1].defeat /\ ~Battle.defeat) => state' = "GAME_OVER"
              /\ ~current_battle'[1].defeat => state' = "BATTLE"
       /\ KeyConfirmDialogue => state' = "OVERWORLD"]_vars

\* C22: the dialogue of a level-up earned in a battle of chapter 1 has been
\* dismissed
C22_Witness ==
    /\ state = "OVERWORLD" /\ ~HasBattle
    /\ previous_state = "OVERWORLD"
    /\ current_chapter = 1
    /\ mario.level = 2

\* C23: a battle key leaves no enemy with hp <= 0 in the current chapter's
\* list, and no battle is entered with an enemy whose hp is <= 0.
C23_DefeatedLeaveRoster ==
    [][/\ KeyStep => \A i \in 1..Len(Roster') : Roster'[i] > 0
       /\ BattleEntry => AllStanding']_vars

\* the meters of audience a are within their bounds
AudienceInBounds(a) ==
    /\ 0 <= a.size /\ a.size <= a.max_size
    /\ 0 <= a.excitement /\ a.excitement <= 100
    /\ 0 <= a.star_power /\ a.star_power <= a.max_star_power

\* C24: the session's audience and the audience of the battle always have
\* 0 <= size <= max_size, 0 <= excitement <= 100 and 0 <= star_power <=
\* max_star_power; increase_excitement(amount) leaves excitement at
\* min(100, excitement + amount) and size as it was or, only if the new
\* excitement exceeds 80, greater by 1.
C24_AudienceBounds ==
    /\ [](/\ AudienceInBounds(audience)
          /\ HasBattle => AudienceInBounds(AudienceOf(Battle)))
    /\ [][\A amount \in ExciteAmounts :
              Excite(amount) =>
                  LET a == AudienceOf(Battle)
                      b == AudienceOf(Battle)'
                  IN  /\ b.excitement = (IF a.excitement + amount < 100
                                         THEN a.excitement + amount ELSE 100)
                      /\ b.size \in {a.size, a.size + 1}
                      /\ b.size = a.size + 1 => b.excitement > 80
                      /\ b.star_power = a.star_power]_vars

\* C24: before a full house, after a battle key, the excitement was raised
\* once more
C24_Witness ==
    /\ state = "BATTLE" /\ HasBattle
    /\ scope.last = << "EXCITE", 30 >>
    /\ Battle.battle_log # << >>
    /\ AudienceOf(Battle).size = AudienceOf(Battle).max_size
    /\ AudienceOf(Battle).excitement = 100
    /\ AudienceOf(Battle).star_power = 100

\* a step from BATTLE into OVERWORLD or DIALOGUE: the battle is over
BattleExit == state = "BATTLE" /\ state' \in {"OVERWORLD", "DIALOGUE"}

\* C25: with TTYD the audience of a battle is the session's audience: a
\* battle ends with the session's audience holding the battle's meters, the
\* next begins with them, and nothing changes them in between; with PM64 a
\* battle begins before a fresh audience (50, 50, 0) and the session's
\* audience stays as the launch left it.
C25_AudienceOwnership ==
    [][/\ selected_game = "TTYD" =>
              /\ HasBattle' => AudienceOf(Battle)' = audience'
              /\ BattleExit => audience' = AudienceOf(Battle)
              /\ BattleEntry => AudienceOf(Battle)' = audience
              /\ state # "BATTLE" => audience' = audience
       /\ selected_game = "PM64" =>
              /\ BattleEntry => AudienceOf(Battle)' = NewAudience
              /\ audience = NewAudience /\ audience' = NewAudience]_vars

\* C25: a second TTYD battle begins before the audience one stylish move
\* and one defeated enemy of the first battle left
C25_Witness ==
    /\ state = "BATTLE" /\ HasBattle
    /\ selected_game = "TTYD"
    /\ Battle.battle_log = << >> /\ Battle.action_timer = 0
    /\ AudienceOf(Battle).star_power = 20
    /\ AudienceOf(Battle).excitement = 100
    /\ AudienceOf(Battle).size = 51

\* C26: a battle key is handled only while the turn flag is "player".
C26_ActOnPlayerTurnOnly ==
    [][KeyStep => Battle.turn = "player"]_vars

\* the hit points the if/elif chain of the session's engine leaves the
\* first enemy of the battle after a HAMMER with the given roll, the action
\* command (enhanced) having failed
HammerLeaves(roll) ==
    act(World, Stats, variant, "HAMMER", 0, roll, FALSE).hp[Battle.enemies[1]]

\* C29: in a battle of either client with the hammer unlocked, a Hammer on
\* the first enemy, the action command (enhanced) failing, takes
\* max(1, attack + 2 + r - defense) from its hp, for every roll r in 1..3.
C29_HammerSameInBoth ==
    (state = "BATTLE" /\ HasBattle /\ mario.has_hammer /\ Battle.enemies # << >>) =>
        \A r \in DamageRolls :
            LET e == Battle.enemies[1]
                raw == mario.attack + 2 + r - Stats[e].defense
            IN  HammerLeaves(r) = Roster[e] - (IF raw > 1 THEN raw ELSE 1)

\* C30: an overworld physics step taken in Plane mode leaves vy at most at
\* 3 px per frame downwards.
C30_PlaneGlide ==
    [][(UpdateOverworld /\ mario.paper_mode = "PLANE") => mario'.vy <= 3 * Unit]_vars

\* the player m where the platform loop of the coming physics step finds him
AtTest(m) ==
    [m EXCEPT !.vy = integrate_vy(m), !.x = @ + m.vx, !.y = @ + integrate_vy(m),
              !.on_ground = FALSE]

\* the places in the list of the platforms that pass the collision test at
\* the start of the platform loop
FirstHits(platforms) ==
    { i \in 1..Len(platforms) : check_platform_collision(AtTest(mario), platforms[i]) }

C28_StillWhenReleased ==
    [][/\ (state = "OVERWORLD" /\ \E key \in DirectionKeys : DirectionUp(key)) =>
              mario'.vx = 0
       /\ (UpdateOverworld /\ scope.held = {}) =>
              /\ mario.vx = 0
              /\ mario'.x = mario.x]_vars


-----------------------------------------------------------------------------
(* The overworld of every chapter of the base client: the player stands at  *)
(* the start column of the chapter and moves, jumps and releases at will;   *)
(* past the right edge he confirms and enters the next chapter in the       *)
(* motion he left the last one with.                                        *)

InitRoam ==
    /\ \E c \in 1..Len(BasePlatforms) : Standing("base", "BASE", c)
    /\ state = "OVERWORLD"
    /\ current_battle = << >>
    /\ scope = Scope(0, 0, {1})
    /\ bench = NoBench

NextRoam ==
    \/ KeyLeft
    \/ KeyRight
    \/ KeyJump
    \/ KeyRelease
    \/ KeyConfirmChapter
    \/ KeyConfirmDialogue
    \/ UpdateOverworld

SpecRoam == InitRoam /\ [][NextRoam]_vars

-----------------------------------------------------------------------------
(* A session of either client.  From the launch the player selects a game, *)
(* cycles the partners, opens the menu and enters up to MaxMeets battles,   *)
(* which he leaves with Run.  In a battle that has just started he presses  *)
(* up to MaxBlows Jump keys, runs, wins or loses, and restarts after a      *)
(* defeat (his defeated enemies drop 5 coins each, those of the other       *)
(* players 1).  Before the right edge of a chapter he walks on from chapter *)
(* to chapter.                                                              *)

InitSession ==
    /\ bench = NoBench
    /\ \/ /\ \E v \in {"base", "enhanced"} : Launch(v)
          /\ scope = Scope(0, MaxMeets, {1})
       \/ /\ \E v \in {"base", "enhanced"} : \E g \in GamesOf(v) : Started(v, g, 1)
          /\ scope = Scope(MaxBlows, MaxMeets, {5})
       \/ /\ \E v \in {"base", "enhanced"} : \E g \in GamesOf(v) : \E c \in EdgeChapters :
                AtEdge(v, g, c)
          /\ state = "OVERWORLD"
          /\ current_battle = << >>
          /\ scope = Scope(0, 0, {1})

NextSession ==
    \/ KeyConfirmIntro
    \/ KeySelectGame
    \/ KeyPartner
    \/ KeyMenu
    \/ KeyCloseMenu
    \/ KeyBattle
    \/ KeyBattleJump
    \/ KeyBattleRun
    \/ KeyConfirmChapter
    \/ KeyConfirmDialogue
    \/ KeyRestart
    \/ UpdateOverworld
    \/ UpdateBattle
    \/ UpdateIdle

SpecSession == InitSession /\ [][NextSession]_vars

-----------------------------------------------------------------------------
(* A player of the base client who fights battle after battle in chapter 1  *)
(* with Jump keys and leaves a battle by victory or with Run.               *)

InitGrind ==
    /\ Started("base", "BASE", 1)
    /\ scope = Scope(MaxKeys + 1, MaxRematches, {1})
    /\ bench = NoBench

NextGrind ==
    \/ KeyBattleJump
    \/ KeyBattleRun
    \/ KeyBattle
    \/ KeyConfirmDialogue
    \/ UpdateBattle

SpecGrind == InitGrind /\ [][NextGrind]_vars

-----------------------------------------------------------------------------
(* The end of the game: the tour of either client, with the keys a player   *)
(* presses and releases on the Victory screen.                              *)

\* the key events delivered in VICTORY
VictoryKeys == {"K_SPACE", "K_r", "K_b", "K_m", "KEYUP"}

\* a faulty handle_events: K_r restarts in VICTORY as it does in GAME_OVER
KeyVictory_restart(key) ==
    /\ state = "VICTORY"
    /\ scope' = [scope EXCEPT !.last = << key, 0 >>]
    /\ IF key = "K_r"
       THEN FreshSession(variant)
       ELSE UNCHANGED << variant, state, previous_state, selected_game, mario,
                         current_chapter, chapters, current_partner_index,
                         current_battle, audience >>
    /\ UNCHANGED bench

\* VICTORY, any key: no branch of handle_events is for this state
KeyVictory(key) ==
    /\ state = "VICTORY"
    /\ scope' = [scope EXCEPT !.last = << key, 0 >>]
    /\ UNCHANGED << variant, state, previous_state, selected_game, mario,
                    current_chapter, chapters, current_partner_index,
                    current_battle, audience, bench >>

NextEnding ==
    \/ NextTour
    \/ \E key \in VictoryKeys : KeyVictory(key)

SpecEnding == InitTour /\ [][NextEnding]_vars

-----------------------------------------------------------------------------
(* Properties of the overworld physics, of the opponents of a battle, of    *)
(* the session's references, of the progress through the chapters and of    *)
(* the end of the game.                                                     *)

\* the player stands still on top of a platform of the chapter: his feet are
\* at the platform's y, he is within its width and moves in no direction
Landed ==
    /\ state = "OVERWORLD"
    /\ mario.vx = 0 /\ mario.vy = 0
    /\ \E i \in 1..Len(Platforms) :
          /\ mario.y = Platforms[i].y - MARIO_HEIGHT * Unit
          /\ mario.x < Platforms[i].x + Platforms[i].width
          /\ mario.x + MARIO_WIDTH * Unit > Platforms[i].x

\* C31: a player who stands still on a platform is grounded after every
\* physics step, stays at platform.y - height, and has every jump accepted.
C31_StableGrounding ==
    /\ [][(UpdateOverworld /\ Landed /\ state' = "OVERWORLD") =>
              (mario'.on_ground /\ mario'.y = mario.y)]_vars
    /\ [][(KeyJump /\ Landed) => mario'.vy = JUMP_STRENGTH]_vars

\* C32: in every chapter of the base client a physics step leaves the player
\* at y <= SCREEN_HEIGHT, whatever he has been made to do: the fall penalty
\* is never paid and no overworld tick ends the game.
C32_NoFallOff ==
    [][(UpdateOverworld /\ variant = "base") =>
           /\ mario_update(mario, Platforms).y <= SCREEN_HEIGHT * Unit
           /\ mario'.hp = mario.hp
           /\ state' # "GAME_OVER"]_vars

\* the player comes down faster than a jump from the ground makes him, and
\* the coming physics step takes him to the ground platform
C32_Witness ==
    /\ variant = "base" /\ state = "OVERWORLD" /\ current_chapter = Len(chapters)
    /\ ~mario.on_ground
    /\ mario.vy > -JUMP_STRENGTH
    /\ mario.y + MARIO_HEIGHT * Unit + mario.vy + GRAVITY > Platforms[1].y

\* the enemies of the current chapter that have been defeated, by their
\* places in the chapter's list
Fallen == SelectSeq([i \in 1..Len(Roster) |-> i], LAMBDA i : Roster[i] <= 0)

\* the player's exp is paid for by enemies defeated once each
PaidOnce == mario.exp <= SumRewards(Fallen)

\* C33: every enemy of a battle just created by start_battle has hp > 0, and
\* over a stay in a chapter the exp earned never exceeds the exp rewards of
\* the chapter's defeated enemies counted once each.
C33_FreshOpponents ==
    /\ [][BattleEntry =>
              \A i \in 1..Len(Battle'.enemies) : chapters'[current_chapter'].enemies[Battle'.enemies[i]] > 0]_vars
    /\ []PaidOnce

\* C34: in BATTLE the session holds a battle; in OVERWORLD, MENU and
\* CHAPTER_COMPLETE the chapter list is not empty and current_chapter is one
\* of its chapters; and in OVERWORLD, where K_p and start_battle run, the
\* partner roster is not empty and current_partner_index is one of its places.
C34_NoDangling ==
    /\ state = "BATTLE" => HasBattle
    /\ state \in {"OVERWORLD", "MENU", "CHAPTER_COMPLETE"} =>
          /\ Len(chapters) > 0
          /\ 1 <= current_chapter /\ current_chapter <= Len(chapters)
    /\ state = "OVERWORLD" =>
          /\ NumPartners(Game) > 0
          /\ 0 <= current_partner_index /\ current_partner_index < NumPartners(Game)

\* a battle of a session restarted after a defeat (the player who was in a
\* battle at first has spent his battle keys, and every enemy is fresh
\* again), entered with the last partner of the TTYD roster
C34_Witness ==
    /\ variant = "enhanced" /\ selected_game = "TTYD"
    /\ state = "BATTLE" /\ HasBattle
    /\ scope.coin_rolls = {5} /\ scope.keys = 0
    /\ AllEnemiesFresh
    /\ Battle.current_partner = NumPartners("TTYD") - 1
    /\ current_partner_index = NumPartners("TTYD") - 1

\* C35: in the base client star_points = current_chapter - 1, level >=
\* current_chapter, has_hammer holds exactly from chapter 2 on,
\* has_super_jump exactly from chapter 4 on, and every chapter before the
\* current one is completed.
C35_ProgressInvariant ==
    variant = "base" =>
        /\ mario.star_points = current_chapter - 1
        /\ mario.level >= current_chapter
        /\ mario.has_hammer <=> current_chapter >= 2
        /\ mario.has_super_jump <=> current_chapter >= 4
        /\ \A k \in 1..(current_chapter - 1) : chapters[k].completed

\* the base player walks in the last chapter, having come all the way from
\* the launch
C35_Witness ==
    /\ variant = "base" /\ state = "OVERWORLD"
    /\ current_chapter = Len(chapters)
    /\ mario.star_points = Len(chapters) - 1
    /\ mario.x > START_X * Unit

\* C36: in OVERWORLD the player's exp is below exp_to_next, however the last
\* battle was left.
C36_NoPendingLevelUp ==
    state = "OVERWORLD" => mario.exp < mario.exp_to_next

\* C37: no step taken in VICTORY changes the state, the current chapter or
\* the player, and VICTORY is entered only by the confirmation of
\* CHAPTER_COMPLETE in the last chapter.
C37_VictoryAbsorbing ==
    /\ [][state = "VICTORY" =>
              /\ state' = "VICTORY"
              /\ current_chapter' = current_chapter
              /\ mario' = mario]_vars
    /\ [][(state # "VICTORY" /\ state' = "VICTORY") =>
              /\ KeyConfirmChapter
              /\ state = "CHAPTER_COMPLETE"
              /\ current_chapter = Len(chapters)]_vars

\* the restart key has been pressed on the Victory screen
C37_Witness ==
    /\ state = "VICTORY"
    /\ current_chapter = Len(chapters)
    /\ scope.last = << "K_r", 0 >>
====
